---- MODULE Spec2Model ----
(***************************************************************************)
(* Model of the scanner of src/src/scanner: the CircuitBreaker             *)
(* (circuit_breaker.rs) and the orchestration loop MevScanner::run_cycle   *)
(* (core.rs).                                                              *)
(*                                                                         *)
(* Time.  An Instant is kept as its age (what Instant::elapsed() returns), *)
(* in ticks, and every age stops growing at a cap: the code only ever     *)
(* compares an age with a duration.  Tick lets one tick of time pass.      *)
(* None (-1) is Option::None.                                              *)
(*                                                                         *)
(* The storage side of src/src/storage/storage_drift.rs is modelled too:   *)
(* SimpleStateCache and StorageDriftDetector, for the logs of one contract.*)
(* H256 and U256 hold the same 256-bit number, kept as a natural number;   *)
(* the integer widths are scaled down (MaxU64 < MaxU128 < MaxU256).  An    *)
(* f64 is kept in hundredths (One is 1.0), quotients rounded down.         *)
(*                                                                         *)
(* The iterator StrSplit of src/src/lib.rs is modelled over strings that   *)
(* are sequences of one-letter strings.                                    *)
(***************************************************************************)
EXTENDS Integers, Sequences, FiniteSets, TLC

\* ---- bounds of the model ------------------------------------------------
\* concurrent callers of one CircuitBreaker
NProcs == 2
\* thresholds 1..MaxThreshold and cool-downs of 1..MaxCoolDown ticks are built
MaxThreshold == 2
MaxCoolDown == 2
\* trip() is not called any more once error_count is MaxCount
MaxCount == 3
\* block numbers 1..MaxBlock, for the poll source's head and for the push stream
MaxBlock == 3
\* the length of one tick of the scanner's clock, in seconds
SecondsPerTick == 15
\* u64::MAX of the scaled-down integers; u128::MAX and U256::MAX follow from it
MaxU64 == 4
\* holders' addresses 1..MaxAddr; 0 is Address::zero()
MaxAddr == 2
\* store_slot_value calls made on one SimpleStateCache by its direct callers
MaxStores == 2
\* a block holds up to MaxLogs copies of a log; analyze_block is called up to
\* MaxRuns times on one detector
MaxLogs == 2
MaxRuns == 2
\* the blocks one behaviour of the drift history analyses
MaxAnalysed == 4
\* StrSplit: haystacks of up to MaxHay letters, delimiters of up to MaxDelim
MaxHay == 5
MaxDelim == 2
\* get_block_receipts: the transactions of a block beyond the concurrency cap
MaxOver == 1

None == 0 - 1

VARIABLES
    \* CircuitBreaker fields (circuit_breaker.rs:8-14)
    error_count, last_tripped, circuit_breaker_threshold, cool_down, auto_reset,
    \* concurrent callers of one CircuitBreaker: position and return value
    cpc, cret,
    \* history of the calls made on the breaker (observation only)
    g_trips, g_lastTrip, g_call,
    \* MevScanner::run_cycle: position, return value, the shutdown channel
    pc, result, shutdown,
    \* ConnectionState (core.rs:101-106) and MevScanner::last_block (core.rs:89)
    ws_connected, consecutive_errors, reconnect_attempts, last_success, last_block,
    \* the two block sources: the poll source's head, the last number pushed
    head, ws_sent,
    \* locals: the pushed block in hand; latest_block and block_num of the replay
    ws_block, latest_block, block_num,
    \* history of the run (observation only)
    g_wsFails, g_reconnected, g_start, g_attempted, g_slept, g_lastErr,
    \* SimpleStateCache: the map behind the RwLock (storage_drift.rs:227), the
    \* lock's holders, and the callers of the cache: position, arguments, result
    slot_values, rw_writer, rw_readers, kpc, kop, kret,
    \* history of the cache: the values pushed per key, in the order of the pushes;
    \* what had been pushed when a read was done; the number of stores
    g_stored, g_seen, g_stores,
    \* StorageDriftDetector fields (storage_drift.rs:263-268)
    contract_layouts, drift_history,
    \* analyze_block: position, block number, the logs still to analyse, the locals
    \* storage_deltas and drift_events, the deltas update_cache has written
    dpc, det_block, receipts, storage_deltas, updated, drift_events,
    \* history of analyze_block: the logs of the block, the log analysed last and
    \* what it emitted, the cache as it was when the block started, the calls made
    g_block, g_log, g_emitted, g_pre, g_runs,
    \* StrSplit fields (lib.rs:11-15)
    remainder, delimiter,
    \* history of the iterator: the haystack it was built on, the items next() has
    \* returned, what the last call returned, the calls made
    g_haystack, g_items, g_ret, g_calls,
    \* process_single_block: position; get_block_receipts: the transactions whose
    \* fetch has not started, the fetches waiting for a permit, the RPC calls in
    \* flight, the permit guards alive; RPC_SEMAPHORE: the permits available
    rphase, queued, waiting, inflight, held, permits,
    \* history of process_single_block: a fetch of the block in hand gave no
    \* receipt; the block in hand was stored as last_block
    g_missed, g_marked

cbVars == <<error_count, last_tripped, circuit_breaker_threshold, cool_down, auto_reset>>
cacheVars == <<slot_values, rw_writer, rw_readers, kpc, kop, kret, g_stored, g_seen,
               g_stores>>
detVars == <<contract_layouts, drift_history, dpc, det_block, receipts,
             storage_deltas, updated, drift_events, g_block, g_log, g_emitted, g_pre,
             g_runs>>
splitVars == <<remainder, delimiter, g_haystack, g_items, g_ret, g_calls>>
\* what stands beside the scanner and the storage side
rcVars == <<rphase, queued, waiting, inflight, held, permits, g_missed, g_marked>>
sideVars == <<splitVars, rcVars>>
\* the storage side and what stands beside it: no step of the breaker or of
\* run_cycle touches them
stVars == <<cacheVars, detVars, sideVars>>
callVars == <<cpc, cret, g_trips, g_lastTrip, g_call, stVars>>
connVars == <<ws_connected, consecutive_errors, reconnect_attempts, last_success>>
srcVars == <<head, ws_sent>>
localVars == <<ws_block, latest_block, block_num>>
ghostVars == <<g_wsFails, g_reconnected, g_start, g_attempted, g_slept, g_lastErr>>
scVars == <<pc, result, shutdown, connVars, last_block, srcVars, localVars, ghostVars,
            stVars>>
\* the scanner side: no step of the cache or of the detector touches it
scannerVars == <<cbVars, cpc, cret, g_trips, g_lastTrip, g_call, pc, result, shutdown,
                 connVars, last_block, srcVars, localVars, ghostVars>>
vars == <<cbVars, callVars, scVars>>

Procs == 1..NProcs

\* ---- CircuitBreaker: the decisions of the code ---------------------------

\* Instant::elapsed() of an age that saturates at cap
Older(age, cap) == IF age = None THEN None ELSE IF age < cap THEN age + 1 ELSE age

\* is_tripped, line 31: `if count < self.circuit_breaker_threshold { return false }`
BelowThreshold(count) == count < circuit_breaker_threshold

\* is_tripped, lines 36-45: the arm of `match *guard` that is taken
MatchArm_stuckFalse(lt) ==
    IF lt = None THEN "none"
    ELSE IF lt < cool_down THEN "cooling"
    ELSE IF auto_reset THEN "auto" ELSE "none"

MatchArm(lt) ==
    IF lt = None THEN "none"
    ELSE IF lt < cool_down THEN "cooling"
    ELSE IF auto_reset THEN "auto" ELSE "stuck"

\* the value each arm that returns at once evaluates to
ArmValue(arm) == arm \in {"cooling", "stuck"}

\* trip, line 50: `if new_count >= self.circuit_breaker_threshold`
TripStamps_strict(new_count) == new_count > circuit_breaker_threshold

TripStamps(new_count) == new_count >= circuit_breaker_threshold

\* ---- concurrent callers of one CircuitBreaker ---------------------------
\* Each step is one atomic access: an atomic load/store/fetch_add of
\* error_count, or one critical section of the last_tripped mutex.

NoCall == [trips |-> 0, fresh |-> FALSE]

\* is_tripped, line 30-33
IsTrippedLoad(p) ==
    /\ cpc[p] = "idle"
    /\ g_call' = [g_call EXCEPT ![p] =
            [trips |-> g_trips,
             fresh |-> g_lastTrip # None /\ g_lastTrip < cool_down]]
    /\ IF BelowThreshold(error_count)
       THEN /\ cpc' = [cpc EXCEPT ![p] = "it_ret"]
            /\ cret' = [cret EXCEPT ![p] = FALSE]
       ELSE /\ cpc' = [cpc EXCEPT ![p] = "it_lock"]
            /\ cret' = cret
    /\ UNCHANGED <<cbVars, g_trips, g_lastTrip, scVars>>

\* is_tripped, lines 35-45: lock, match; the guard is held to the return except in
\* the auto-reset arm, which drops it and calls reset()
IsTrippedMatch(p) ==
    /\ cpc[p] = "it_lock"
    /\ g_call' = [g_call EXCEPT ![p].fresh = g_lastTrip # None /\ g_lastTrip < cool_down]
    /\ IF MatchArm(last_tripped) = "auto"
       THEN /\ cpc' = [cpc EXCEPT ![p] = "it_reset_store"]
            /\ cret' = cret
       ELSE /\ cpc' = [cpc EXCEPT ![p] = "it_ret"]
            /\ cret' = [cret EXCEPT ![p] = ArmValue(MatchArm(last_tripped))]
    /\ UNCHANGED <<cbVars, g_trips, g_lastTrip, scVars>>

\* reset, line 57, called from is_tripped line 40
IsTrippedResetStore(p) ==
    /\ cpc[p] = "it_reset_store"
    /\ error_count' = 0
    /\ cpc' = [cpc EXCEPT ![p] = "it_reset_lock"]
    /\ g_trips' = 0
    /\ UNCHANGED <<last_tripped, circuit_breaker_threshold, cool_down, auto_reset,
                   cret, g_lastTrip, g_call, scVars>>

\* reset, lines 58-59, then is_tripped line 41
IsTrippedResetClear(p) ==
    /\ cpc[p] = "it_reset_lock"
    /\ last_tripped' = None
    /\ cpc' = [cpc EXCEPT ![p] = "it_ret"]
    /\ cret' = [cret EXCEPT ![p] = FALSE]
    /\ UNCHANGED <<error_count, circuit_breaker_threshold, cool_down, auto_reset,
                   g_trips, g_lastTrip, g_call, scVars>>

\* trip, lines 49-50
TripAdd(p) ==
    /\ cpc[p] = "idle"
    /\ error_count < MaxCount
    /\ error_count' = error_count + 1
    /\ cpc' = [cpc EXCEPT ![p] =
            IF TripStamps(error_count + 1) THEN "tr_lock" ELSE "tr_ret"]
    /\ g_trips' = IF TripStamps(error_count + 1) THEN g_trips ELSE g_trips + 1
    /\ g_lastTrip' = IF TripStamps(error_count + 1) THEN g_lastTrip ELSE 0
    /\ UNCHANGED <<last_tripped, circuit_breaker_threshold, cool_down, auto_reset,
                   cret, g_call, scVars>>

\* trip, lines 51-52
TripStamp(p) ==
    /\ cpc[p] = "tr_lock"
    /\ last_tripped' = 0
    /\ cpc' = [cpc EXCEPT ![p] = "tr_ret"]
    /\ g_trips' = g_trips + 1
    /\ g_lastTrip' = 0
    /\ UNCHANGED <<error_count, circuit_breaker_threshold, cool_down, auto_reset,
                   cret, g_call, scVars>>

\* reset, line 57
ResetStore_decays(p) ==
    /\ cpc[p] = "idle"
    /\ error_count' = error_count \div 2
    /\ cpc' = [cpc EXCEPT ![p] = "rs_lock"]
    /\ g_trips' = 0
    /\ UNCHANGED <<last_tripped, circuit_breaker_threshold, cool_down, auto_reset,
                   cret, g_lastTrip, g_call, scVars>>

ResetStore(p) ==
    /\ cpc[p] = "idle"
    /\ error_count' = 0
    /\ cpc' = [cpc EXCEPT ![p] = "rs_lock"]
    /\ g_trips' = 0
    /\ UNCHANGED <<last_tripped, circuit_breaker_threshold, cool_down, auto_reset,
                   cret, g_lastTrip, g_call, scVars>>

\* reset, lines 58-59
ResetClear(p) ==
    /\ cpc[p] = "rs_lock"
    /\ last_tripped' = None
    /\ cpc' = [cpc EXCEPT ![p] = "rs_ret"]
    /\ UNCHANGED <<error_count, circuit_breaker_threshold, cool_down, auto_reset,
                   cret, g_trips, g_lastTrip, g_call, scVars>>

\* the call returns to its caller
Return(p) ==
    /\ cpc[p] \in {"it_ret", "tr_ret", "rs_ret"}
    /\ cpc' = [cpc EXCEPT ![p] = "idle"]
    /\ g_call' = [g_call EXCEPT ![p] = NoCall]
    /\ UNCHANGED <<cbVars, cret, g_trips, g_lastTrip, scVars>>

CallStep(p) ==
    \/ IsTrippedLoad(p)
    \/ IsTrippedMatch(p)
    \/ IsTrippedResetStore(p)
    \/ IsTrippedResetClear(p)
    \/ TripAdd(p)
    \/ TripStamp(p)
    \/ ResetStore(p)
    \/ ResetClear(p)
    \/ Return(p)

\* one tick of time passes
CBTick ==
    /\ \/ last_tripped \notin {None, cool_down}
       \/ g_lastTrip \notin {None, cool_down}
    /\ last_tripped' = Older(last_tripped, cool_down)
    /\ g_lastTrip' = Older(g_lastTrip, cool_down)
    /\ UNCHANGED <<error_count, circuit_breaker_threshold, cool_down, auto_reset,
                   cpc, cret, g_trips, g_call, scVars>>

\* ---- MevScanner: constants -----------------------------------------------
\* durations are in seconds; Ticks turns one into ticks of SecondsPerTick seconds
CIRCUIT_BREAKER_THRESHOLD == 5
COOL_DOWN_PERIOD == 30
RECONNECT_DELAY == 1
MAX_CONSECUTIVE_ERRORS == 3
WS_RETRY_AFTER == 30
MAX_RECONNECT_ATTEMPTS == 5

Ticks(seconds) == seconds \div SecondsPerTick

\* MevScanner::new, core.rs:174-178: the breaker is built with auto_reset = true
ScannerAutoReset_off == FALSE

ScannerAutoReset == TRUE

\* last_success never needs to grow past the first age that is > WS_RETRY_AFTER
SuccessCap == Ticks(WS_RETRY_AFTER) + 1

Advance(age, d, cap) ==
    IF age = None THEN None ELSE IF age + d < cap THEN age + d ELSE cap

\* ---- MevScanner: the breaker as run_cycle, its only caller, uses it ------

\* is_tripped() returns true (circuit_breaker.rs:37, 43)
GateTripped_never == FALSE

GateTripped ==
    ~BelowThreshold(error_count) /\ ArmValue(MatchArm(last_tripped))

\* is_tripped() takes the auto-reset arm and calls reset() (circuit_breaker.rs:38-42)
GateResets ==
    ~BelowThreshold(error_count) /\ MatchArm(last_tripped) = "auto"

\* trip() (circuit_breaker.rs:48-54)
TripCall ==
    /\ error_count' = error_count + 1
    /\ last_tripped' = IF TripStamps(error_count + 1) THEN 0 ELSE last_tripped
    /\ UNCHANGED <<circuit_breaker_threshold, cool_down, auto_reset>>

\* ---- MevScanner::run_cycle -----------------------------------------------
\* Each action runs the async block from one suspension point to the next.  A local
\* that goes out of scope is set back to 0.

\* run_cycle, core.rs:222-227 and 242: the breaker gate, then the choice of transport
Gate ==
    /\ pc = "gate"
    /\ IF GateResets
       THEN error_count' = 0 /\ last_tripped' = None
       ELSE UNCHANGED <<error_count, last_tripped>>
    /\ pc' = IF GateTripped THEN "cooldown"
             ELSE IF ws_connected THEN "ws_subscribe" ELSE "http_sleep"
    /\ g_slept' = IF g_slept = "slept" /\ ~GateTripped THEN "resumed" ELSE g_slept
    /\ g_lastErr' = "none"
    /\ UNCHANGED <<circuit_breaker_threshold, cool_down, auto_reset, callVars,
                   result, shutdown, connVars, last_block, srcVars, localVars,
                   g_wsFails, g_reconnected, g_start, g_attempted>>

\* run_cycle, core.rs:224: sleep(COOL_DOWN_PERIOD)
CoolDownSleepTicks == Ticks(COOL_DOWN_PERIOD)

CoolDownSleep ==
    /\ pc = "cooldown"
    /\ last_tripped' = Advance(last_tripped, CoolDownSleepTicks, cool_down)
    /\ last_success' = Advance(last_success, CoolDownSleepTicks, SuccessCap)
    /\ pc' = "gate"
    /\ g_slept' = "slept"
    /\ UNCHANGED <<error_count, circuit_breaker_threshold, cool_down, auto_reset,
                   callVars, result, shutdown, ws_connected, consecutive_errors,
                   reconnect_attempts, last_block, srcVars, localVars,
                   g_wsFails, g_reconnected, g_start, g_attempted, g_lastErr>>

\* run_cycle, core.rs:235-239: process_ws_blocks returned Err.  (It never returns
\* Ok: its loop ends only by `return Err(e)` or with the stream, so the arm of
\* core.rs:229-234 is not taken.)
WsFailed(kind) ==
    /\ ws_connected' = FALSE
    /\ TripCall
    /\ pc' = "gate"
    /\ g_lastErr' = kind
    /\ g_wsFails' = 0

\* process_ws_blocks, core.rs:283-288: subscribe_blocks()
WsSubscribeOk ==
    /\ pc = "ws_subscribe"
    /\ pc' = "ws_next"
    /\ g_reconnected' = FALSE
    /\ g_slept' = "no"
    /\ UNCHANGED <<cbVars, callVars, result, shutdown, connVars, last_block, srcVars,
                   localVars, g_wsFails, g_start, g_attempted, g_lastErr>>

WsSubscribeErr ==
    /\ pc = "ws_subscribe"
    /\ WsFailed("subscribe")
    /\ g_reconnected' = FALSE
    /\ g_slept' = "no"
    /\ UNCHANGED <<callVars, result, shutdown, consecutive_errors, reconnect_attempts,
                   last_success, last_block, srcVars, localVars, g_start, g_attempted>>

\* update_connection_success, core.rs:506-511
update_connection_success ==
    /\ ws_connected' = TRUE
    /\ last_success' = 0
    /\ consecutive_errors' = 0

\* process_ws_blocks, core.rs:290-291: the stream yields the next block, in chain order
WsNextBlock ==
    /\ pc = "ws_next"
    /\ \E n \in (ws_sent + 1)..MaxBlock :
          /\ ws_sent' = n
          /\ ws_block' = n
    /\ update_connection_success
    /\ pc' = "ws_process"
    /\ UNCHANGED <<cbVars, callVars, result, shutdown, reconnect_attempts, last_block,
                   head, latest_block, block_num, ghostVars>>

\* process_ws_blocks, core.rs:303-304: the stream ended
WsStreamEnd ==
    /\ pc = "ws_next"
    /\ WsFailed("stream_end")
    /\ UNCHANGED <<callVars, result, shutdown, consecutive_errors, reconnect_attempts,
                   last_success, last_block, srcVars, localVars,
                   g_reconnected, g_start, g_attempted, g_slept>>

\* process_block_immediately, core.rs:349-356: the block was processed
WsProcessOk ==
    /\ pc = "ws_process"
    /\ last_block' = ws_block
    /\ pc' = "ws_next"
    /\ ws_block' = 0
    /\ g_wsFails' = 0
    /\ UNCHANGED <<cbVars, callVars, result, shutdown, connVars, srcVars, latest_block,
                   block_num, g_reconnected, g_start, g_attempted, g_slept, g_lastErr>>

\* process_block_immediately, core.rs:361-367: the processing timed out; Ok(()) is
\* returned and the marker is left alone (a block without a number does the same)
WsProcessTimeout ==
    /\ pc = "ws_process"
    /\ pc' = "ws_next"
    /\ ws_block' = 0
    /\ UNCHANGED <<cbVars, callVars, result, shutdown, connVars, last_block, srcVars,
                   latest_block, block_num, ghostVars>>

\* process_block_immediately, core.rs:357-360, returned Err; then
\* handle_connection_error, core.rs:513-520, and process_ws_blocks, core.rs:297-299
WsProcessErr ==
    /\ pc = "ws_process"
    /\ consecutive_errors' = consecutive_errors + 1
    /\ IF consecutive_errors + 1 >= MAX_CONSECUTIVE_ERRORS
       THEN /\ WsFailed("block")
       ELSE /\ pc' = "ws_next"
            /\ g_wsFails' = IF g_wsFails < MAX_CONSECUTIVE_ERRORS
                            THEN g_wsFails + 1 ELSE g_wsFails
            /\ UNCHANGED <<cbVars, ws_connected, g_lastErr>>
    /\ ws_block' = 0
    /\ UNCHANGED <<callVars, result, shutdown, reconnect_attempts, last_success,
                   last_block, srcVars, latest_block, block_num,
                   g_reconnected, g_start, g_attempted, g_slept>>

\* process_http_polling, core.rs:312: sleep(HTTP_POLL_INTERVAL) completes.  The other
\* branch of the select!, ws_reconnected.notified(), never completes: notify_waiters()
\* (core.rs:490) wakes only tasks waiting at that moment and is called by this same
\* task, after process_http_polling has returned.
HttpSleep ==
    /\ pc = "http_sleep"
    /\ pc' = "http_head"
    /\ g_slept' = "no"
    /\ UNCHANGED <<cbVars, callVars, result, shutdown, connVars, last_block, srcVars,
                   localVars, g_wsFails, g_reconnected, g_start, g_attempted, g_lastErr>>

\* process_http_polling, core.rs:313-318: the head was fetched
HttpHeadOk ==
    /\ pc = "http_head"
    /\ \E h \in head..MaxBlock :
          /\ head' = h
          /\ latest_block' = h
          /\ IF h > last_block
             THEN pc' = "http_block" /\ block_num' = last_block + 1
             ELSE pc' = "http_poll_end" /\ block_num' = block_num
    /\ g_start' = last_block
    /\ g_attempted' = << >>
    /\ UNCHANGED <<cbVars, callVars, result, shutdown, connVars, last_block, ws_sent,
                   ws_block, g_wsFails, g_reconnected, g_slept, g_lastErr>>

\* process_http_polling, core.rs:313: get_block_number() failed, `?` returns the
\* error; run_cycle, core.rs:248-251: trip, then sleep(RECONNECT_DELAY)
HttpHeadErr_fatal ==
    /\ pc = "http_head"
    /\ pc' = "done"
    /\ result' = "Err"
    /\ g_lastErr' = "poll"
    /\ UNCHANGED <<cbVars, callVars, shutdown, connVars, last_block, srcVars,
                   localVars, g_wsFails, g_reconnected, g_start, g_attempted, g_slept>>

HttpHeadErr ==
    /\ pc = "http_head"
    /\ TripCall
    /\ pc' = "reconnect_delay"
    /\ g_lastErr' = "poll"
    /\ UNCHANGED <<callVars, result, shutdown, connVars, last_block, srcVars,
                   localVars, g_wsFails, g_reconnected, g_start, g_attempted, g_slept>>

\* process_http_polling, core.rs:319-323: the marker after block n was tried
MarkerAfter_noContinue(n, ok) == n

MarkerAfter(n, ok) == IF ok THEN n ELSE last_block

\* process_http_polling, core.rs:318-324: one block of the replay
HttpBlock ==
    /\ pc = "http_block"
    /\ \E ok \in BOOLEAN :
          /\ last_block' = MarkerAfter(block_num, ok)
          /\ g_attempted' = Append(g_attempted, [n |-> block_num, ok |-> ok])
    /\ IF block_num < latest_block
       THEN pc' = "http_block" /\ block_num' = block_num + 1
       ELSE pc' = "http_poll_end" /\ block_num' = block_num
    /\ UNCHANGED <<cbVars, callVars, result, shutdown, connVars, srcVars, ws_block,
                   latest_block, g_wsFails, g_reconnected, g_start, g_slept, g_lastErr>>

\* should_attempt_ws_reconnect, core.rs:498-504
should_attempt_ws_reconnect ==
    ~ws_connected /\ last_success > Ticks(WS_RETRY_AFTER)

\* try_reconnect_ws, core.rs:473: the early return
ReconnectRefused ==
    ws_connected \/ reconnect_attempts > MAX_RECONNECT_ATTEMPTS

\* process_http_polling, core.rs:327-330: the end of one poll; on break, run_cycle,
\* core.rs:244-246, and try_reconnect_ws, core.rs:472-479, up to the connect
HttpPollEnd ==
    /\ pc = "http_poll_end"
    /\ IF should_attempt_ws_reconnect
       THEN /\ last_success' = 0
            /\ IF ReconnectRefused
               THEN pc' = "gate" /\ reconnect_attempts' = reconnect_attempts
               ELSE pc' = "connecting" /\ reconnect_attempts' = reconnect_attempts + 1
       ELSE /\ pc' = "http_sleep"
            /\ UNCHANGED <<last_success, reconnect_attempts>>
    /\ latest_block' = 0
    /\ block_num' = 0
    /\ g_start' = 0
    /\ g_attempted' = << >>
    /\ UNCHANGED <<cbVars, callVars, result, shutdown, ws_connected, consecutive_errors,
                   last_block, srcVars, ws_block,
                   g_wsFails, g_reconnected, g_slept, g_lastErr>>

\* try_reconnect_ws, core.rs:482-491: the connect succeeded
ConnectOk_keepAttempts ==
    /\ pc = "connecting"
    /\ ws_connected' = TRUE
    /\ consecutive_errors' = 0
    /\ pc' = "gate"
    /\ g_reconnected' = TRUE
    /\ UNCHANGED <<cbVars, callVars, result, shutdown, last_success, last_block,
                   reconnect_attempts, srcVars, localVars,
                   g_wsFails, g_start, g_attempted, g_slept, g_lastErr>>

ConnectOk ==
    /\ pc = "connecting"
    /\ ws_connected' = TRUE
    /\ reconnect_attempts' = 0
    /\ consecutive_errors' = 0
    /\ pc' = "gate"
    /\ g_reconnected' = TRUE
    /\ UNCHANGED <<cbVars, callVars, result, shutdown, last_success, last_block,
                   srcVars, localVars,
                   g_wsFails, g_start, g_attempted, g_slept, g_lastErr>>

\* try_reconnect_ws, core.rs:492-494: the connect failed
ConnectErr ==
    /\ pc = "connecting"
    /\ pc' = "gate"
    /\ UNCHANGED <<cbVars, callVars, result, shutdown, connVars, last_block, srcVars,
                   localVars, ghostVars>>

\* run_cycle, core.rs:251: sleep(RECONNECT_DELAY) completes
ReconnectDelay ==
    /\ pc = "reconnect_delay"
    /\ last_tripped' = Advance(last_tripped, Ticks(RECONNECT_DELAY), cool_down)
    /\ last_success' = Advance(last_success, Ticks(RECONNECT_DELAY), SuccessCap)
    /\ pc' = "gate"
    /\ UNCHANGED <<error_count, circuit_breaker_threshold, cool_down, auto_reset,
                   callVars, result, shutdown, ws_connected, consecutive_errors,
                   reconnect_attempts, last_block, srcVars, localVars, ghostVars>>

\* run_cycle, core.rs:216-220: the select! takes the shutdown branch, which drops the
\* async block wherever it is suspended
ShutdownRecv_ignored ==
    /\ shutdown = "sent"
    /\ pc \notin {"done", "off"}
    /\ shutdown' = "consumed"
    /\ UNCHANGED <<cbVars, callVars, pc, result, connVars, last_block, srcVars,
                   localVars, ghostVars>>

ShutdownRecv ==
    /\ shutdown = "sent"
    /\ pc \notin {"done", "off"}
    /\ shutdown' = "consumed"
    /\ pc' = "done"
    /\ result' = "Ok"
    /\ ws_block' = 0
    /\ latest_block' = 0
    /\ block_num' = 0
    /\ UNCHANGED <<cbVars, callVars, connVars, last_block, srcVars, ghostVars>>

\* the owner of the channel sends the shutdown signal
SendShutdown ==
    /\ shutdown = "none"
    /\ pc \notin {"done", "off"}
    /\ shutdown' = "sent"
    /\ UNCHANGED <<cbVars, callVars, pc, result, connVars, last_block, srcVars,
                   localVars, ghostVars>>

\* one tick of time passes
Tick ==
    /\ pc \notin {"done", "off"}
    /\ \/ last_tripped \notin {None, cool_down}
       \/ last_success # SuccessCap
    /\ last_tripped' = Older(last_tripped, cool_down)
    /\ last_success' = Older(last_success, SuccessCap)
    /\ UNCHANGED <<error_count, circuit_breaker_threshold, cool_down, auto_reset,
                   callVars, pc, result, shutdown, ws_connected, consecutive_errors,
                   reconnect_attempts, last_block, srcVars, localVars, ghostVars>>

\* no caller of the breaker other than run_cycle
CallersIdle ==
    /\ cpc = [p \in Procs |-> "idle"]
    /\ cret = [p \in Procs |-> FALSE]
    /\ g_trips = 0
    /\ g_lastTrip = None
    /\ g_call = [p \in Procs |-> NoCall]

\* the state of the scanner's variables; at is where run_cycle stands, connected is
\* what Provider::<Ws>::connect gave MevScanner::new (core.rs:135-147)
ScannerAt(at, connected) ==
    /\ pc = at
    /\ result = "none"
    /\ shutdown = "none"
    /\ ws_connected = connected
    /\ consecutive_errors = 0
    /\ reconnect_attempts = 0
    /\ last_success = 0
    /\ last_block = 0
    /\ head = 0
    /\ ws_sent = 0
    /\ ws_block = 0
    /\ latest_block = 0
    /\ block_num = 0
    /\ g_wsFails = 0
    /\ g_reconnected = FALSE
    /\ g_start = 0
    /\ g_attempted = << >>
    /\ g_slept = "no"
    /\ g_lastErr = "none"

\* ======================= storage_drift.rs ==================================

\* ---- values ---------------------------------------------------------------
MaxU128 == MaxU64 + 1
MaxU256 == MaxU128 + 2

\* the 256-bit values an H256 or a U256 holds
Val == 0..MaxU256

\* U256::saturating_add, U256::saturating_sub
saturating_add(a, b) == IF a + b > MaxU256 THEN MaxU256 ELSE a + b
saturating_sub(a, b) == IF a > b THEN a - b ELSE 0

\* U256::as_u128 panics when the number does not fit into 128 bits
FitsU128(a) == a <= MaxU128

\* H256::low_u64: the low 64 bits
low_u64(h) == h % (MaxU64 + 1)

\* 1.0 as an f64 of the model
One == 100

Min(a, b) == IF a < b THEN a ELSE b
Max(a, b) == IF a > b THEN a ELSE b
Last(s) == s[Len(s)]

\* an Option is a sequence: << >> is None and <<v>> is Some(v)
Nothing == << >>
Some(v) == <<v>>

\* Address::zero() and the addresses of the model
ZeroAddress == 0
Addresses == 0..MaxAddr

\* enum SlotKey (lines 50-54)
BalanceOf(a) == <<"BalanceOf", a>>
Reserves(n) == <<"Reserves", n>>
SlotKeys == {BalanceOf(a) : a \in Addresses} \cup {Reserves(8), Reserves(9)}

\* ---- SimpleStateCache -----------------------------------------------------
\* slot_values[k] is the Vec<H256> of key k; a key that is not in the HashMap has
\* the empty sequence (store_slot_value never leaves an empty Vec in the map).
\* Each action is one step of a caller: taking the lock, one access under the lock,
\* or returning.

\* lines 246-247: `if values.len() > 100 { values.drain(0..values.len() - 100) }`
KeepLast == 100

drain_keepsOldest(values) ==
    IF Len(values) > KeepLast THEN SubSeq(values, 1, KeepLast) ELSE values

drain(values) ==
    IF Len(values) > KeepLast
    THEN SubSeq(values, Len(values) - KeepLast + 1, Len(values))
    ELSE values

\* RwLock::write().await and RwLock::read().await return when the lock is granted
WriteAdmitted == rw_writer = None /\ rw_readers = {}

ReadAdmitted_unlocked == TRUE

ReadAdmitted == rw_writer = None

NoOp == [op |-> "none", key |-> << >>, value |-> 0]

\* the keys the callers of the cache model use, and the values they store
ProbedKeys == {Reserves(8), BalanceOf(1)}
StoredVals == {0, MaxU256}

\* store_slot_value, line 241
StoreLock(p) ==
    /\ kpc[p] = "idle"
    /\ g_stores < MaxStores
    /\ WriteAdmitted
    /\ \E k \in ProbedKeys, v \in StoredVals :
          kop' = [kop EXCEPT ![p] = [op |-> "store", key |-> k, value |-> v]]
    /\ rw_writer' = p
    /\ kpc' = [kpc EXCEPT ![p] = "st_push"]
    /\ g_stores' = g_stores + 1
    /\ UNCHANGED <<slot_values, rw_readers, kret, g_stored, g_seen, detVars,
                   scannerVars, sideVars>>

\* store_slot_value, line 242
StorePush(p) ==
    /\ kpc[p] = "st_push"
    /\ slot_values' = [slot_values EXCEPT ![kop[p].key] = Append(@, kop[p].value)]
    /\ g_stored' = [g_stored EXCEPT ![kop[p].key] = Append(@, kop[p].value)]
    /\ kpc' = [kpc EXCEPT ![p] = "st_drain"]
    /\ UNCHANGED <<rw_writer, rw_readers, kop, kret, g_seen, g_stores, detVars,
                   scannerVars, sideVars>>

\* store_slot_value, lines 245-250; the write guard is dropped at the return
StoreDrain(p) ==
    /\ kpc[p] = "st_drain"
    /\ slot_values' = [slot_values EXCEPT ![kop[p].key] = drain(@)]
    /\ rw_writer' = None
    /\ kpc' = [kpc EXCEPT ![p] = "idle"]
    /\ kop' = [kop EXCEPT ![p] = NoOp]
    /\ UNCHANGED <<rw_readers, kret, g_stored, g_seen, g_stores, detVars,
                   scannerVars, sideVars>>

\* get_slot_history line 253, get_latest_value line 258
ReadLock(p) ==
    /\ kpc[p] = "idle"
    /\ ReadAdmitted
    /\ \E o \in {"history", "latest"}, k \in ProbedKeys :
          kop' = [kop EXCEPT ![p] = [op |-> o, key |-> k, value |-> 0]]
    /\ rw_readers' = rw_readers \cup {p}
    /\ kpc' = [kpc EXCEPT ![p] = "rd_held"]
    /\ UNCHANGED <<slot_values, rw_writer, kret, g_stored, g_seen, g_stores, detVars,
                   scannerVars, sideVars>>

\* line 254: `cache.get(&(contract, slot)).cloned().unwrap_or_default()`
get_slot_history(k) == slot_values[k]

\* line 259: `cache.get(&(contract, slot))?.last().cloned()`
get_latest_value(k) ==
    IF slot_values[k] = << >> THEN Nothing ELSE Some(Last(slot_values[k]))

\* get_slot_history line 254, get_latest_value line 259; the read guard is dropped
\* at the return
ReadReturn(p) ==
    /\ kpc[p] = "rd_held"
    /\ kret' = [kret EXCEPT ![p] =
            IF kop[p].op = "history" THEN get_slot_history(kop[p].key)
            ELSE get_latest_value(kop[p].key)]
    /\ g_seen' = [g_seen EXCEPT ![p] = g_stored[kop[p].key]]
    /\ rw_readers' = rw_readers \ {p}
    /\ kpc' = [kpc EXCEPT ![p] = "rd_ret"]
    /\ UNCHANGED <<slot_values, rw_writer, kop, g_stored, g_stores, detVars,
                   scannerVars, sideVars>>

\* the caller takes the result
ReadDone(p) ==
    /\ kpc[p] = "rd_ret"
    /\ kpc' = [kpc EXCEPT ![p] = "idle"]
    /\ kop' = [kop EXCEPT ![p] = NoOp]
    /\ kret' = [kret EXCEPT ![p] = << >>]
    /\ g_seen' = [g_seen EXCEPT ![p] = << >>]
    /\ UNCHANGED <<slot_values, rw_writer, rw_readers, g_stored, g_stores, detVars,
                   scannerVars, sideVars>>

\* no direct caller of the cache, the lock is free
CacheIdle ==
    /\ rw_writer = None
    /\ rw_readers = {}
    /\ kpc = [p \in Procs |-> "idle"]
    /\ kop = [p \in Procs |-> NoOp]
    /\ kret = [p \in Procs |-> << >>]
    /\ g_seen = [p \in Procs |-> << >>]
    /\ g_stores = 0

\* a cache that holds exactly the values `stored`, pushed by as many stores
CacheHolds(stored) ==
    /\ slot_values = stored
    /\ g_stored = stored

\* SimpleStateCache::new, lines 233-238
EmptyCache == [k \in SlotKeys |-> << >>]

\* ---- StorageDriftDetector: logs, layouts, deltas ---------------------------
\* The receipts of a block are the logs of transactions sent to one contract.  A log
\* is its signature topics[0] (sig), the topics after it, and its data in words of
\* 32 bytes.

\* classify_event, lines 657-669
classify_event(signature) ==
    CASE signature = "ddf252ad" -> "Transfer"
      [] signature = "d78ad95f" -> "Swap"
      [] signature = "1c411e9a" -> "Sync"
      [] OTHER -> "Unknown"

\* infer_default_layout, lines 615-654: the semantic meaning of the known slots
infer_default_layout == (0 :> "Ownership") @@ (8 :> "Reserve") @@ (9 :> "Reserve")

\* get_storage_layout, lines 605-613
get_storage_layout ==
    IF contract_layouts = Nothing THEN infer_default_layout ELSE contract_layouts[1]

\* f64 constants of the code
Hundredths(n) == (n * One) \div 100

\* calculate_balance_impact, lines 672-679
calculate_balance_impact(transfer_amount, old_balance) ==
    IF old_balance = 0 THEN One
    ELSE Min((transfer_amount * One) \div old_balance, One)

\* lines 677: as_u128() of the amount and of the old balance
balance_impact_panics(transfer_amount, old_balance) ==
    old_balance # 0 /\ (~FitsU128(transfer_amount) \/ ~FitsU128(old_balance))

Change(old_reserve, new_reserve) ==
    IF new_reserve > old_reserve THEN new_reserve - old_reserve
    ELSE old_reserve - new_reserve

\* calculate_reserve_impact, lines 682-695
calculate_reserve_impact(old_reserve, new_reserve) ==
    IF old_reserve = 0 THEN One
    ELSE Min(2 * ((Change(old_reserve, new_reserve) * One) \div old_reserve), One)

\* line 693: as_u128() of the change and of the old reserve
reserve_impact_panics(old_reserve, new_reserve) ==
    /\ old_reserve # 0
    /\ ~FitsU128(Change(old_reserve, new_reserve)) \/ ~FitsU128(old_reserve)

StorageDelta(key, old, new, type, impact, conf, block) ==
    [slot_key |-> key, old_value |-> old, new_value |-> new, change_type |-> type,
     impact_score |-> impact, confidence |-> conf, block_number |-> block]

\* handle_transfer_event, lines 365-379: the sender's delta
SenderDelta_zeroToo(log, block) ==
    LET from == log.topics[1]
        amount == log.data[1]
        old_balance == get_latest_value(BalanceOf(from))
    IN  IF old_balance # Nothing
        THEN <<StorageDelta(BalanceOf(from), old_balance[1],
                            saturating_sub(old_balance[1], amount), "MappingUpdate",
                            calculate_balance_impact(amount, old_balance[1]),
                            Hundredths(95), block)>>
        ELSE << >>

SenderDelta(log, block) ==
    LET from == log.topics[1]
        amount == log.data[1]
        old_balance == get_latest_value(BalanceOf(from))
    IN  IF from # ZeroAddress /\ old_balance # Nothing
        THEN <<StorageDelta(BalanceOf(from), old_balance[1],
                            saturating_sub(old_balance[1], amount), "MappingUpdate",
                            calculate_balance_impact(amount, old_balance[1]),
                            Hundredths(95), block)>>
        ELSE << >>

\* handle_transfer_event, lines 381-395: the receiver's delta
ReceiverDelta_fromZero(log, block) ==
    LET to == log.topics[2]
        amount == log.data[1]
        old_balance == get_latest_value(BalanceOf(to))
    IN  IF to # ZeroAddress
        THEN IF old_balance # Nothing
             THEN <<StorageDelta(BalanceOf(to), old_balance[1],
                                 saturating_add(old_balance[1], amount), "MappingUpdate",
                                 calculate_balance_impact(amount, old_balance[1]),
                                 Hundredths(95), block)>>
             ELSE <<StorageDelta(BalanceOf(to), 0, amount, "MappingUpdate", One,
                                 Hundredths(95), block)>>
        ELSE << >>

ReceiverDelta(log, block) ==
    LET to == log.topics[2]
        amount == log.data[1]
        old_balance == get_latest_value(BalanceOf(to))
    IN  IF to # ZeroAddress /\ old_balance # Nothing
        THEN <<StorageDelta(BalanceOf(to), old_balance[1],
                            saturating_add(old_balance[1], amount), "MappingUpdate",
                            calculate_balance_impact(amount, old_balance[1]),
                            Hundredths(95), block)>>
        ELSE << >>

\* line 358: `log.topics.len() >= 3 && log.data.len() >= 32`
TransferShaped(log) == Len(log.topics) >= 2 /\ Len(log.data) >= 1

\* handle_transfer_event, lines 355-399
handle_transfer_event(log, block) ==
    IF TransferShaped(log) THEN SenderDelta(log, block) \o ReceiverDelta(log, block)
    ELSE << >>

\* the calls of calculate_balance_impact that handle_transfer_event makes
transfer_panics(log) ==
    /\ TransferShaped(log)
    /\ \E i \in 1..2 :
          /\ log.topics[i] # ZeroAddress
          /\ get_latest_value(BalanceOf(log.topics[i])) # Nothing
          /\ balance_impact_panics(log.data[1],
                                   get_latest_value(BalanceOf(log.topics[i]))[1])

\* handle_swap_event, lines 417-424: slot 8 moves by amount0, slot 9 by amount1
SwapIn(log, reserve_slot) == IF reserve_slot = 8 THEN log.data[1] ELSE log.data[2]
SwapOut(log, reserve_slot) == IF reserve_slot = 8 THEN log.data[3] ELSE log.data[4]

SwapNew(log, reserve_slot, old_reserve) ==
    saturating_sub(saturating_add(old_reserve, SwapIn(log, reserve_slot)),
                   SwapOut(log, reserve_slot))

\* lines 414-416: the slots of the loop body that is entered
SwapTouches(layout, reserve_slot) ==
    /\ reserve_slot \in DOMAIN layout
    /\ layout[reserve_slot] = "Reserve"
    /\ get_latest_value(Reserves(reserve_slot)) # Nothing

\* handle_swap_event, lines 413-440: one pass of the loop
SwapDelta(log, layout, block, reserve_slot) ==
    LET old_reserve == get_latest_value(Reserves(reserve_slot))
    IN  IF SwapTouches(layout, reserve_slot)
        THEN <<StorageDelta(Reserves(reserve_slot), old_reserve[1],
                            SwapNew(log, reserve_slot, old_reserve[1]), "DirectWrite",
                            calculate_reserve_impact(old_reserve[1],
                                SwapNew(log, reserve_slot, old_reserve[1])),
                            Hundredths(98), block)>>
        ELSE << >>

\* line 405: `log.data.len() >= 128`
SwapShaped(log) == Len(log.data) >= 4

\* handle_swap_event, lines 402-443.  The amounts are declared inside the block of
\* line 405, so the loop that uses them is read as part of that block.
handle_swap_event(log, layout, block) ==
    IF SwapShaped(log)
    THEN SwapDelta(log, layout, block, 8) \o SwapDelta(log, layout, block, 9)
    ELSE << >>

swap_panics(log, layout) ==
    /\ SwapShaped(log)
    /\ \E n \in {8, 9} :
          /\ SwapTouches(layout, n)
          /\ reserve_impact_panics(get_latest_value(Reserves(n))[1],
                                   SwapNew(log, n, get_latest_value(Reserves(n))[1]))

\* sync_event, lines 454-470: one pass of the loop; i is 1 for slot 8, 2 for slot 9
SyncWrites_always(old_reserve, new_reserve) == TRUE

SyncWrites(old_reserve, new_reserve) == old_reserve # new_reserve

SyncDelta(log, block, i, reserve_slot) ==
    LET old_reserve == get_latest_value(Reserves(reserve_slot))
    IN  IF old_reserve # Nothing /\ SyncWrites(old_reserve[1], log.data[i])
        THEN <<StorageDelta(Reserves(reserve_slot), old_reserve[1], log.data[i],
                            "DirectWrite",
                            calculate_reserve_impact(old_reserve[1], log.data[i]),
                            Hundredths(99), block)>>
        ELSE << >>

\* line 449: `log.data.len() >= 64`
SyncShaped(log) == Len(log.data) >= 2

\* sync_event, lines 446-473
sync_event(log, block) ==
    IF SyncShaped(log) THEN SyncDelta(log, block, 1, 8) \o SyncDelta(log, block, 2, 9)
    ELSE << >>

sync_panics(log) ==
    /\ SyncShaped(log)
    /\ \E i \in 1..2 :
          LET old_reserve == get_latest_value(Reserves(7 + i))
          IN  /\ old_reserve # Nothing
              /\ SyncWrites(old_reserve[1], log.data[i])
              /\ reserve_impact_panics(old_reserve[1], log.data[i])

\* analyze_log, lines 324-352
analyze_log_unknownAsTransfer(log, layout, block) ==
    IF log.sig = "" THEN << >>
    ELSE CASE classify_event(log.sig) = "Transfer" -> handle_transfer_event(log, block)
           [] classify_event(log.sig) = "Swap" -> handle_swap_event(log, layout, block)
           [] classify_event(log.sig) = "Sync" -> sync_event(log, block)
           [] OTHER -> handle_transfer_event(log, block)

analyze_log(log, layout, block) ==
    IF log.sig = "" THEN << >>
    ELSE CASE classify_event(log.sig) = "Transfer" -> handle_transfer_event(log, block)
           [] classify_event(log.sig) = "Swap" -> handle_swap_event(log, layout, block)
           [] classify_event(log.sig) = "Sync" -> sync_event(log, block)
           [] OTHER -> << >>

analyze_log_panics(log, layout) ==
    /\ log.sig # ""
    /\ CASE classify_event(log.sig) = "Transfer" -> transfer_panics(log)
         [] classify_event(log.sig) = "Swap" -> swap_panics(log, layout)
         [] classify_event(log.sig) = "Sync" -> sync_panics(log)
         [] OTHER -> FALSE

\* ---- StorageDriftDetector: scoring ------------------------------------------

RECURSIVE SumOf(_)
SumOf(s) == IF s = << >> THEN 0 ELSE s[1] + SumOf(Tail(s))

\* f64::sqrt of a number of the model's resolution squared
Sqrt(v) == CHOOSE r \in 0..(One * (MaxU64 + 1)) : r * r <= v /\ v < (r + 1) * (r + 1)

\* calculate_volatility, lines 543-557
calculate_volatility(values) ==
    IF Len(values) < 2 THEN 0
    ELSE LET numeric_values == [i \in 1..Len(values) |-> low_u64(values[i]) * One]
             mean == SumOf(numeric_values) \div Len(values)
             variance ==
                 SumOf([i \in 1..Len(values) |->
                            (numeric_values[i] - mean) * (numeric_values[i] - mean)])
                     \div Len(values)
         IN  (Sqrt(variance) * One) \div Max(mean, One)

\* line 524: `if changes.len() > 3 { score += 0.3 }`
RapidChanges(changes) == IF Len(changes) > 3 THEN Hundredths(30) ELSE 0

\* line 529
avg_impact(changes) ==
    SumOf([i \in 1..Len(changes) |-> changes[i].impact_score]) \div Len(changes)

\* lines 534-537: the term of the slot history
VolatilityTerm_always(history) == (calculate_volatility(history) * 3) \div 10

VolatilityTerm(history) ==
    IF Len(history) > 10 THEN (calculate_volatility(history) * 3) \div 10 ELSE 0

\* lines 521-539: the score from its three terms
ScoreOf_uncapped(rapid, avg, volatility) == rapid + (avg * 4) \div 10 + volatility

ScoreOf(rapid, avg, volatility) == Min(rapid + (avg * 4) \div 10 + volatility, One)

\* calculate_drift_score, lines 516-540
calculate_drift_score(changes, slot_key) ==
    IF changes = << >> THEN 0
    ELSE ScoreOf(RapidChanges(changes), avg_impact(changes),
                 VolatilityTerm(get_slot_history(slot_key)))

\* StorageDriftDetector::new, line 276
anomaly_threshold == Hundredths(70)

\* predict_future_value, lines 560-583
predict_future_value(slot_key) ==
    LET history == get_slot_history(slot_key)
        newest == low_u64(Last(history))
        oldest == low_u64(history[Max(Len(history) - 9, 1)])
    IN  IF Len(history) < 3
        THEN (IF history = << >> THEN 0 ELSE Last(history))
        ELSE Min(Max(11 * newest - oldest, 0) \div 10, MaxU64)

\* detect_drift_events, lines 485-488: the deltas of one (contract, slot) group
RECURSIVE GroupOf(_, _)
GroupOf(deltas, slot_key) ==
    IF deltas = << >> THEN << >>
    ELSE (IF deltas[1].slot_key = slot_key THEN <<deltas[1]>> ELSE << >>)
             \o GroupOf(Tail(deltas), slot_key)

\* line 493
Anomalous_atThreshold(drift_score) == drift_score >= anomaly_threshold

Anomalous(drift_score) == drift_score > anomaly_threshold

\* lines 498-508
SlotDriftEvent(slot_key, changes, block) ==
    [slot_key |-> slot_key,
     current_value |-> Last(changes).new_value,
     predicted_value |-> predict_future_value(slot_key),
     current_block |-> block,
     predicted_block |-> block + 10,
     confidence |-> calculate_drift_score(changes, slot_key)]

\* detect_drift_events, lines 481-513.  The groups are visited in the order of a
\* HashMap; the events are kept as a set.
detect_drift_events(deltas, block) ==
    {SlotDriftEvent(k, GroupOf(deltas, k), block) :
        k \in {k \in SlotKeys : /\ GroupOf(deltas, k) # << >>
                                /\ Anomalous(calculate_drift_score(GroupOf(deltas, k), k))}}

\* store_drift_events, lines 593-602
Retention == 1000

store_drift_events(history, block, events) ==
    LET inserted == [b \in DOMAIN history \cup {block} |->
                        IF b = block THEN events ELSE history[b]]
        cutoff == IF block > Retention THEN block - Retention ELSE 0
    IN  IF Cardinality(DOMAIN inserted) > Retention
        THEN [b \in {k \in DOMAIN inserted : k > cutoff} |-> inserted[b]]
        ELSE inserted

\* ---- StorageDriftDetector::analyze_block ------------------------------------
\* One call at a time (process_single_block awaits it, core.rs:391-393).  Each action
\* runs analyze_block from one await to the next; the detector is the only user of
\* its cache, so a cache call is one step.

NoLog == [sig |-> "", topics |-> << >>, data |-> << >>]

\* the logs a block can hold: Transfer, Swap (one token in, the other out), Sync,
\* each also with too few topics or too little data; an event that is not known; a
\* log with no topic
Amounts == {0, 1, MaxU128, MaxU256}
Logs ==
    {[sig |-> "ddf252ad", topics |-> <<f, t>>, data |-> <<a>>] :
        f \in Addresses, t \in Addresses, a \in Amounts}
    \cup {[sig |-> "ddf252ad", topics |-> <<1>>, data |-> <<1>>],
          [sig |-> "ddf252ad", topics |-> <<1, 2>>, data |-> << >>]}
    \cup {[sig |-> "d78ad95f", topics |-> << >>, data |-> <<a, 0, 0, d>>] :
        a \in Amounts, d \in Amounts}
    \cup {[sig |-> "d78ad95f", topics |-> << >>, data |-> <<0, b, c, 0>>] :
        b \in Amounts, c \in Amounts}
    \cup {[sig |-> "d78ad95f", topics |-> << >>, data |-> <<1, 1, 1>>]}
    \cup {[sig |-> "1c411e9a", topics |-> << >>, data |-> <<r0, r1>>] :
        r0 \in Amounts, r1 \in Amounts}
    \cup {[sig |-> "1c411e9a", topics |-> << >>, data |-> <<1>>]}
    \cup {[sig |-> "8c5be1e5", topics |-> <<1, 2>>, data |-> <<1>>], NoLog}

\* logs that are put together in one block
MixLogs ==
    {[sig |-> "ddf252ad", topics |-> <<1, 2>>, data |-> <<1>>],
     [sig |-> "ddf252ad", topics |-> <<2, 1>>, data |-> <<MaxU128>>],
     [sig |-> "d78ad95f", topics |-> << >>, data |-> <<1, 0, 0, 1>>],
     [sig |-> "1c411e9a", topics |-> << >>, data |-> <<1, 0>>]}

\* logs that are passed over, each put in front of a Transfer in one block
PassedLogs ==
    {[sig |-> "ddf252ad", topics |-> <<1>>, data |-> <<1>>],
     [sig |-> "8c5be1e5", topics |-> <<1, 2>>, data |-> <<1>>],
     NoLog}

\* the receipts of a block: no log, up to MaxLogs copies of one log, or two logs
Blocks ==
    {[i \in 1..n |-> log] : log \in Logs, n \in 0..MaxLogs}
    \cup {<<a, b>> : a \in MixLogs, b \in MixLogs}
    \cup {<<a, [sig |-> "ddf252ad", topics |-> <<1, 2>>, data |-> <<1>>]>> :
             a \in PassedLogs}

\* analyze_block, lines 283-285.  The first block has the lowest or the highest
\* block number and any receipts; the block after it holds the same logs again.
BeginBlock ==
    /\ dpc \in {"idle", "cancelled"}
    /\ g_runs < MaxRuns
    /\ IF g_runs = 0
       THEN /\ \E n \in {1, MaxBlock} : det_block' = n
            /\ \E logs \in Blocks : receipts' = logs
       ELSE /\ det_block < MaxBlock
            /\ det_block' = det_block + 1
            /\ receipts' = g_block
    /\ g_block' = receipts'
    /\ dpc' = "extract"
    /\ storage_deltas' = << >>
    /\ drift_events' = {}
    /\ updated' = 0
    /\ g_log' = NoLog
    /\ g_emitted' = << >>
    /\ g_pre' = slot_values
    /\ g_runs' = g_runs + 1
    /\ UNCHANGED <<cacheVars, contract_layouts, drift_history, scannerVars, sideVars>>

\* extract_storage_changes, lines 307-319: one log of the receipts
AnalyzeLog ==
    /\ dpc = "extract"
    /\ receipts # << >>
    /\ g_log' = Head(receipts)
    /\ receipts' = Tail(receipts)
    /\ IF analyze_log_panics(Head(receipts), get_storage_layout)
       THEN /\ dpc' = "panicked"
            /\ g_emitted' = << >>
            /\ UNCHANGED storage_deltas
       ELSE /\ dpc' = dpc
            /\ g_emitted' = analyze_log(Head(receipts), get_storage_layout, det_block)
            /\ storage_deltas' =
                  storage_deltas
                      \o analyze_log(Head(receipts), get_storage_layout, det_block)
    /\ UNCHANGED <<cacheVars, contract_layouts, drift_history, det_block, drift_events,
                   updated, g_block, g_pre, g_runs, scannerVars, sideVars>>

\* analyze_block, lines 288-291: the receipts are exhausted
ExtractDone ==
    /\ dpc = "extract"
    /\ receipts = << >>
    /\ dpc' = "update"
    /\ UNCHANGED <<cacheVars, contract_layouts, drift_history, det_block, receipts,
                   storage_deltas, drift_events, updated, g_block, g_log, g_emitted,
                   g_pre, g_runs, scannerVars, sideVars>>

\* update_cache, lines 586-590: one store_slot_value call (lines 240-250)
UpdateCache ==
    /\ dpc = "update"
    /\ updated < Len(storage_deltas)
    /\ LET delta == storage_deltas[updated + 1]
       IN  /\ slot_values' = [slot_values EXCEPT
                                 ![delta.slot_key] = drain(Append(@, delta.new_value))]
           /\ g_stored' = [g_stored EXCEPT ![delta.slot_key] = Append(@, delta.new_value)]
    /\ updated' = updated + 1
    /\ UNCHANGED <<rw_writer, rw_readers, kpc, kop, kret, g_seen, g_stores,
                   contract_layouts, drift_history, dpc, det_block, receipts,
                   storage_deltas, drift_events, g_block, g_log, g_emitted, g_pre,
                   g_runs, scannerVars, sideVars>>

\* analyze_block, line 294
DetectDrift_early ==
    /\ dpc = "update"
    /\ drift_events' = detect_drift_events(storage_deltas, det_block)
    /\ dpc' = "store"
    /\ UNCHANGED <<cacheVars, contract_layouts, drift_history, det_block, receipts,
                   storage_deltas, updated, g_block, g_log, g_emitted, g_pre, g_runs,
                   scannerVars, sideVars>>

DetectDrift ==
    /\ dpc = "update"
    /\ updated = Len(storage_deltas)
    /\ drift_events' = detect_drift_events(storage_deltas, det_block)
    /\ dpc' = "store"
    /\ UNCHANGED <<cacheVars, contract_layouts, drift_history, det_block, receipts,
                   storage_deltas, updated, g_block, g_log, g_emitted, g_pre, g_runs,
                   scannerVars, sideVars>>

\* analyze_block, lines 297-301: Ok(drift_events) is returned
StoreDriftEvents ==
    /\ dpc = "store"
    /\ drift_history' = store_drift_events(drift_history, det_block, drift_events)
    /\ dpc' = "idle"
    /\ UNCHANGED <<cacheVars, contract_layouts, det_block, receipts, storage_deltas,
                   drift_events, updated, g_block, g_log, g_emitted, g_pre, g_runs,
                   scannerVars, sideVars>>

\* The future of analyze_block is dropped at one of its awaits: by the timeout of
\* process_block_immediately (core.rs:349) or by the select! of run_cycle
\* (core.rs:215-220) when the shutdown signal arrives.  storage_deltas and updated
\* stay as they were at the drop, to be looked at.
Cancel ==
    /\ dpc \in {"extract", "update", "store"}
    /\ dpc' = "cancelled"
    /\ receipts' = << >>
    /\ UNCHANGED <<cacheVars, contract_layouts, drift_history, det_block, storage_deltas,
                   drift_events, updated, g_block, g_log, g_emitted, g_pre, g_runs,
                   scannerVars, sideVars>>

\* ======================= lib.rs: StrSplit ==================================
\* A &str is the sequence of its letters.

Letters == {"a", "b"}
Strings(n) == UNION {[1..k -> Letters] : k \in 0..n}

\* str::find: the byte offset of the first occurrence of pat in s
str_find(s, pat) ==
    LET starts == {i \in 0..(Len(s) - Len(pat)) : SubSeq(s, i + 1, i + Len(pat)) = pat}
    IN  IF starts = {} THEN Nothing
        ELSE Some(CHOOSE i \in starts : \A j \in starts : i <= j)

\* <&str as Delimiter>::find_next, lib.rs:54-58
find_next_skipsOne(d, s) ==
    IF str_find(s, d) = Nothing THEN Nothing
    ELSE Some(<<str_find(s, d)[1], str_find(s, d)[1] + 1>>)

find_next(d, s) ==
    IF str_find(s, d) = Nothing THEN Nothing
    ELSE Some(<<str_find(s, d)[1], str_find(s, d)[1] + Len(d)>>)

\* the calls of next() made on one iterator
MaxCalls == MaxHay + 3

\* <StrSplit as Iterator>::next, lib.rs:38-49
next ==
    /\ g_calls < MaxCalls
    /\ g_calls' = g_calls + 1
    /\ IF remainder = Nothing
       THEN /\ g_ret' = Nothing
            /\ UNCHANGED <<remainder, g_items>>
       ELSE LET found == find_next(delimiter, remainder[1])
            IN  IF found # Nothing
                THEN LET delim_start == found[1][1]
                         delim_end == found[1][2]
                         until_delimeter == SubSeq(remainder[1], 1, delim_start)
                     IN  /\ remainder' = Some(SubSeq(remainder[1], delim_end + 1,
                                                     Len(remainder[1])))
                         /\ g_ret' = Some(until_delimeter)
                         /\ g_items' = Append(g_items, until_delimeter)
                ELSE /\ remainder' = Nothing
                     /\ g_ret' = remainder
                     /\ g_items' = Append(g_items, remainder[1])
    /\ UNCHANGED <<delimiter, g_haystack, scannerVars, cacheVars, detVars, rcVars>>

\* StrSplit::new(haystack, delimiter), lib.rs:19-24
StrSplitNew(haystack, d) ==
    /\ remainder = Some(haystack)
    /\ delimiter = d
    /\ g_haystack = haystack
    /\ g_items = << >>
    /\ g_ret = Nothing
    /\ g_calls = 0

\* no StrSplit is in use
SplitIdle ==
    /\ remainder = Nothing
    /\ delimiter = << >>
    /\ g_haystack = << >>
    /\ g_items = << >>
    /\ g_ret = Nothing
    /\ g_calls = 0

\* ======================= core.rs: get_block_receipts =======================
\* The fetches of one call are counted, not told apart: of the transactions of the
\* block, `queued` have not been taken from the stream, `waiting` are suspended in
\* RPC_SEMAPHORE.acquire(), `inflight` are suspended in get_transaction_receipt
\* and the rest have completed.  All of them are futures of the scanner's one task:
\* a step is a poll of that task.

\* const_and_addr.rs:14
MAX_RECEIPT_CONCURRENCY == 150

\* the transactions of a block
TxCounts == {0, 1, MAX_RECEIPT_CONCURRENCY, MAX_RECEIPT_CONCURRENCY + MaxOver}

\* one poll of the stream `.buffered(MAX_RECEIPT_CONCURRENCY)`, core.rs:444-456,
\* from q queued, w waiting and f fetches in flight, h guards alive and p permits
\* available: the buffer is filled from the stream, and the fetches that have
\* not yet got a permit take one while there is one (line 448) and issue their
\* call (lines 449-450).  Outputs held back for the order of the results do not
\* count as buffered here, which can only start a fetch earlier.
Poll(q, w, f, h, p) ==
    LET started == Min(q, MAX_RECEIPT_CONCURRENCY - (w + f))
        acquired == Min(w + started, p)
    IN  /\ queued' = q - started
        /\ waiting' = (w + started) - acquired
        /\ inflight' = f + acquired
        /\ held' = h + acquired
        /\ permits' = p - acquired

\* process_single_block, core.rs:388: get_block_receipts is called on a block of n
\* transactions and polled for the first time
RcBegin ==
    /\ rphase = "idle"
    /\ rphase' = "fetch"
    /\ \E n \in TxCounts : Poll(n, 0, 0, held, permits)
    /\ g_missed' = FALSE
    /\ g_marked' = FALSE
    /\ UNCHANGED <<scannerVars, cacheVars, detVars, splitVars>>

\* core.rs:449-453: a call of get_transaction_receipt returns (a receipt, none or
\* an error, which `.ok().flatten()` makes none); the fetch completes and its
\* _permit is dropped; the stream is polled again
RcRpcDone_keepsPermit ==
    /\ rphase = "fetch"
    /\ inflight > 0
    /\ Poll(queued, waiting, inflight - 1, held, permits)
    /\ \E got \in BOOLEAN : g_missed' = (g_missed \/ ~got)
    /\ UNCHANGED <<rphase, g_marked, scannerVars, cacheVars, detVars, splitVars>>

RcRpcDone ==
    /\ rphase = "fetch"
    /\ inflight > 0
    /\ Poll(queued, waiting, inflight - 1, held - 1, permits + 1)
    /\ \E got \in BOOLEAN : g_missed' = (g_missed \/ ~got)
    /\ UNCHANGED <<rphase, g_marked, scannerVars, cacheVars, detVars, splitVars>>

\* core.rs:457-461: every fetch has completed, collect() returns the receipts;
\* process_single_block goes on to the analysis of the block
RcCollect ==
    /\ rphase = "fetch"
    /\ queued = 0 /\ waiting = 0 /\ inflight = 0
    /\ rphase' = "analyze"
    /\ UNCHANGED <<queued, waiting, inflight, held, permits, g_missed, g_marked,
                   scannerVars, cacheVars, detVars, splitVars>>

\* core.rs:349 and 215-220: the timeout or the shutdown drops process_single_block
\* while it fetches; the fetches are dropped and their guards with them
RcCancel ==
    /\ rphase = "fetch"
    /\ rphase' = "idle"
    /\ queued' = 0 /\ waiting' = 0 /\ inflight' = 0
    /\ held' = 0
    /\ permits' = permits + held
    /\ g_missed' = FALSE
    /\ UNCHANGED <<g_marked, scannerVars, cacheVars, detVars, splitVars>>

\* core.rs:391: the analysis of the block, as the calls it makes on the cache;
\* the scanner's task is caller 1 of the cache
RcAnalyze ==
    /\ rphase = "analyze"
    /\ \/ StoreLock(1)
       \/ StorePush(1)
       \/ StoreDrain(1)
       \/ ReadLock(1)
       \/ ReadReturn(1)
       \/ ReadDone(1)

\* process_single_block returns Ok and its caller stores the number of the block
\* as last_block (core.rs:355, 323)
RcReturn ==
    /\ rphase = "analyze"
    /\ kpc[1] = "idle"
    /\ rphase' = "idle"
    /\ g_marked' = TRUE
    /\ UNCHANGED <<queued, waiting, inflight, held, permits, g_missed, scannerVars,
                   cacheVars, detVars, splitVars>>

\* no call of get_block_receipts is running; RPC_SEMAPHORE as created, core.rs:438-440
RcIdle ==
    /\ rphase = "idle"
    /\ queued = 0 /\ waiting = 0 /\ inflight = 0
    /\ held = 0
    /\ permits = MAX_RECEIPT_CONCURRENCY
    /\ g_missed = FALSE
    /\ g_marked = FALSE

SidesIdle == SplitIdle /\ RcIdle

\* ---- specifications of the storage side -------------------------------------

\* the scanner and its breaker as MevScanner::new leaves them, run_cycle not running
ScannerParked ==
    /\ error_count = 0
    /\ last_tripped = None
    /\ circuit_breaker_threshold = CIRCUIT_BREAKER_THRESHOLD
    /\ cool_down = Ticks(COOL_DOWN_PERIOD)
    /\ auto_reset = ScannerAutoReset
    /\ CallersIdle
    /\ ScannerAt("off", FALSE)

\* analyze_block is not running; n is the block it analysed last
DetectorIdleAt(n) ==
    /\ dpc = "idle"
    /\ det_block = n
    /\ receipts = << >>
    /\ storage_deltas = << >>
    /\ drift_events = {}
    /\ updated = 0
    /\ g_block = << >>
    /\ g_log = NoLog
    /\ g_emitted = << >>
    /\ g_pre = EmptyCache
    /\ g_runs = 0

DetectorIdle == DetectorIdleAt(0)

\* StorageDriftDetector::new, lines 271-278
StorageNew ==
    /\ CacheIdle
    /\ CacheHolds(EmptyCache)
    /\ contract_layouts = Nothing
    /\ drift_history = << >>
    /\ DetectorIdle

\* n values stored one after the other
Fill(n) == [i \in 1..n |-> i % (MaxU256 + 1)]

\* a SimpleStateCache after n stores on one key, for an n below, just below and at
\* the number of values that are kept
PrefilledCache(n) == [k \in SlotKeys |-> IF k = Reserves(8) THEN Fill(n) ELSE << >>]

CacheInit ==
    /\ ScannerParked
    /\ SidesIdle
    /\ contract_layouts = Nothing
    /\ drift_history = << >>
    /\ DetectorIdle
    /\ CacheIdle
    /\ \E n \in {0, KeepLast - 1, KeepLast} : CacheHolds(PrefilledCache(n))

CacheNext ==
    \E p \in Procs :
        \/ StoreLock(p)
        \/ StorePush(p)
        \/ StoreDrain(p)
        \/ ReadLock(p)
        \/ ReadReturn(p)
        \/ ReadDone(p)

\* calls made one after the other
CacheAlone(p) == \A q \in Procs \ {p} : kpc[q] = "idle"

CacheSeqNext ==
    \E p \in Procs :
        \/ CacheAlone(p) /\ StoreLock(p)
        \/ CacheAlone(p) /\ StorePush(p)
        \/ CacheAlone(p) /\ StoreDrain(p)
        \/ CacheAlone(p) /\ ReadLock(p)
        \/ CacheAlone(p) /\ ReadReturn(p)
        \/ CacheAlone(p) /\ ReadDone(p)

SpecCache == CacheInit /\ [][CacheNext]_vars
SpecCacheSeq == CacheInit /\ [][CacheSeqNext]_vars

\* the slot histories a detector is started with: one value, a history that swings
\* between 0 and 1, a history with one spike at its end
Swing(n) == [i \in 1..n |-> i % 2]
Spike(n) == [i \in 1..n |-> IF i = n THEN MaxU64 ELSE 0]
Histories ==
    {<<v>> : v \in Amounts} \cup {Swing(10), Spike(11), Swing(KeepLast)}

\* caches that hold balances, and caches that hold reserves
BalanceSeeds ==
    {[k \in SlotKeys |->
        IF k = BalanceOf(1) THEN h
        ELSE IF k \in others THEN <<1>> ELSE << >>] :
        h \in Histories \cup {<< >>},
        others \in {{}, {BalanceOf(ZeroAddress)}, {BalanceOf(2)}}}
ReserveSeeds ==
    {[k \in SlotKeys |->
        IF k = Reserves(8) THEN h ELSE IF k = Reserves(9) THEN h9 ELSE << >>] :
        h \in Histories \cup {<< >>}, h9 \in {<< >>, <<1>>, <<MaxU128>>}}

\* the layouts a contract is registered with
Layouts ==
    {infer_default_layout,
     (8 :> "Reserve") @@ (9 :> "Price"),
     (0 :> "Ownership") @@ (9 :> "Reserve")}

\* a detector whose cache holds values and whose registry may hold a layout
DetInit ==
    /\ ScannerParked
    /\ SidesIdle
    /\ CacheIdle
    /\ \/ /\ \E s \in BalanceSeeds : CacheHolds(s)
          /\ contract_layouts = Nothing
       \/ /\ \E s \in ReserveSeeds : CacheHolds(s)
          /\ contract_layouts \in {Nothing} \cup {Some(l) : l \in Layouts}
    /\ drift_history = << >>
    /\ DetectorIdle

DetNext ==
    \/ BeginBlock
    \/ AnalyzeLog
    \/ ExtractDone
    \/ UpdateCache
    \/ DetectDrift
    \/ StoreDriftEvents

SpecDet == DetInit /\ [][DetNext]_vars

\* analyze_block as process_single_block calls it, under the timeout and the select!
DetCancelNext == DetNext \/ Cancel

\* the caches of DetInit that hold one value or a short history per slot
ShortSeeds ==
    {s \in BalanceSeeds \cup ReserveSeeds :
        \A k \in SlotKeys : s[k] \in {<< >>, <<1>>, Spike(11)}}

CancelInit ==
    /\ ScannerParked
    /\ SidesIdle
    /\ CacheIdle
    /\ \E s \in ShortSeeds : CacheHolds(s)
    /\ contract_layouts = Nothing
    /\ drift_history = << >>
    /\ DetectorIdle

SpecDetCancel == CancelInit /\ [][DetCancelNext]_vars

\* ---- the drift history over many blocks ------------------------------------

\* the drift history after the blocks 1..n, none of which gave an event
StoredBlocks(n) == [b \in 1..n |-> {}]

\* the distance from one analysed block to the next
Gaps == {1, 2, Retention, Retention + 1}

\* analyze_block, lines 282-302, on a block without receipts: no delta, no cache
\* write, no event, and store_drift_events inserts the block
AnalyzeEmptyBlock ==
    /\ dpc = "idle"
    /\ g_runs < MaxAnalysed
    /\ \E gap \in Gaps : det_block' = det_block + gap
    /\ drift_events' = detect_drift_events(<< >>, det_block')
    /\ drift_history' = store_drift_events(drift_history, det_block', drift_events')
    /\ receipts' = << >>
    /\ storage_deltas' = << >>
    /\ updated' = 0
    /\ g_block' = << >>
    /\ g_log' = NoLog
    /\ g_emitted' = << >>
    /\ g_pre' = slot_values
    /\ g_runs' = g_runs + 1
    /\ UNCHANGED <<cacheVars, contract_layouts, dpc, scannerVars, sideVars>>

\* a detector that has analysed no block, or the blocks 1..n for an n just below and
\* at the number of entries that are kept
HistInit ==
    /\ ScannerParked
    /\ SidesIdle
    /\ CacheIdle
    /\ CacheHolds(EmptyCache)
    /\ contract_layouts = Nothing
    /\ \E n \in {0, Retention - 1, Retention} :
          /\ drift_history = StoredBlocks(n)
          /\ DetectorIdleAt(n)

HistNext == AnalyzeEmptyBlock

SpecHist == HistInit /\ [][HistNext]_vars

\* ---- specification of StrSplit ----------------------------------------------

SplitInit ==
    /\ ScannerParked
    /\ StorageNew
    /\ RcIdle
    /\ \E haystack \in Strings(MaxHay), d \in Strings(MaxDelim) :
          StrSplitNew(haystack, d)

SplitNext == next

SpecSplit == SplitInit /\ [][SplitNext]_vars

\* ---- get_block_receipts and the analysis that follows it, block after block ----
RcInit ==
    /\ ScannerParked
    /\ StorageNew
    /\ SidesIdle

RcNext ==
    \/ RcBegin
    \/ RcRpcDone
    \/ RcCollect
    \/ RcCancel
    \/ RcAnalyze
    \/ RcReturn

\* every call of get_transaction_receipt returns
SpecRc == RcInit /\ [][RcNext]_vars /\ WF_vars(RcRpcDone)

\* ======================= specifications of the scanner ====================

\* MevScanner::new, core.rs:121-198, then run_cycle is entered
Init ==
    /\ error_count = 0
    /\ last_tripped = None
    /\ circuit_breaker_threshold = CIRCUIT_BREAKER_THRESHOLD
    /\ cool_down = Ticks(COOL_DOWN_PERIOD)
    /\ auto_reset = ScannerAutoReset
    /\ CallersIdle
    /\ StorageNew
    /\ SidesIdle
    /\ \E connected \in BOOLEAN : ScannerAt("gate", connected)

Next ==
    \/ Gate
    \/ CoolDownSleep
    \/ WsSubscribeOk
    \/ WsSubscribeErr
    \/ WsNextBlock
    \/ WsStreamEnd
    \/ WsProcessOk
    \/ WsProcessTimeout
    \/ WsProcessErr
    \/ HttpSleep
    \/ HttpHeadOk
    \/ HttpHeadErr
    \/ HttpBlock
    \/ HttpPollEnd
    \/ ConnectOk
    \/ ConnectErr
    \/ ReconnectDelay
    \/ ShutdownRecv
    \/ SendShutdown
    \/ Tick

Spec == Init /\ [][Next]_vars

\* the select! of run_cycle polls shutdown_rx.recv() every time the async block
\* suspends or completes, so a pending signal is taken
FairSpec == Spec /\ WF_vars(ShutdownRecv)

\* ---- the CircuitBreaker alone, under concurrent callers -------------------

\* CircuitBreaker::new, lines 17-27, for every threshold, cool-down and auto-reset
CBInit ==
    /\ error_count = 0
    /\ last_tripped = None
    /\ circuit_breaker_threshold \in 1..MaxThreshold
    /\ cool_down \in 1..MaxCoolDown
    /\ auto_reset \in BOOLEAN
    /\ cpc = [p \in Procs |-> "idle"]
    /\ cret = [p \in Procs |-> FALSE]
    /\ g_trips = 0
    /\ g_lastTrip = None
    /\ g_call = [p \in Procs |-> NoCall]
    /\ StorageNew
    /\ SidesIdle
    /\ ScannerAt("off", FALSE)

CBNext == CBTick \/ \E p \in Procs : CallStep(p)

\* calls made one after the other: a call starts only when no call is in progress
Alone(p) == \A q \in Procs \ {p} : cpc[q] = "idle"

CBSeqNext ==
    \/ CBTick
    \/ \E p \in Procs :
          \/ Alone(p) /\ IsTrippedLoad(p)
          \/ Alone(p) /\ IsTrippedMatch(p)
          \/ Alone(p) /\ IsTrippedResetStore(p)
          \/ Alone(p) /\ IsTrippedResetClear(p)
          \/ Alone(p) /\ TripAdd(p)
          \/ Alone(p) /\ TripStamp(p)
          \/ Alone(p) /\ ResetStore(p)
          \/ Alone(p) /\ ResetClear(p)
          \/ Alone(p) /\ Return(p)

SpecCB == CBInit /\ [][CBNext]_vars
SpecCBSeq == CBInit /\ [][CBSeqNext]_vars

\* ======================= the claims ========================================

\* ---- C1 (SpecCBSeq) -------------------------------------------------------
\* C1: after exactly `threshold` trip() calls with no reset in between (made one
\* after the other), is_tripped() returns true while less than cool_down has elapsed
\* since the last trip; once cool_down has elapsed and auto-reset is enabled it
\* returns false and the error counter is 0 again.
C1_TripThenCoolDown ==
    \A p \in Procs :
        (cpc[p] = "it_ret" /\ g_call[p].trips = circuit_breaker_threshold) =>
            /\ g_call[p].fresh => cret[p] = TRUE
            /\ (~g_call[p].fresh /\ auto_reset) => (cret[p] = FALSE /\ error_count = 0)

\* is_tripped() has just returned false, by auto-reset, after `threshold` trips and
\* an elapsed cool-down
C1_Witness ==
    \E p \in Procs :
        /\ cpc[p] = "it_ret"
        /\ g_call[p].trips = circuit_breaker_threshold
        /\ ~g_call[p].fresh
        /\ auto_reset
        /\ cret[p] = FALSE
        /\ circuit_breaker_threshold > 1

\* ---- C2 (SpecCB) ----------------------------------------------------------
\* C2: in every interleaving of concurrent trip(), reset() and is_tripped() calls,
\* an is_tripped() call returns false when the error counter is below the threshold,
\* and true when the counter is at or above the threshold and the cool-down since the
\* most recent trip has not elapsed (the state is read at the step that returns).
C2_EveryInterleaving ==
    [][\A p \in Procs :
          (cpc[p] # "it_ret" /\ cpc'[p] = "it_ret") =>
              /\ error_count' < circuit_breaker_threshold => cret'[p] = FALSE
              /\ (/\ error_count' >= circuit_breaker_threshold
                  /\ g_lastTrip' # None
                  /\ g_lastTrip' < cool_down) => cret'[p] = TRUE]_vars

\* ---- C3 (Spec) ------------------------------------------------------------
\* C3: in WsLive, once processing has failed for 3 pushed blocks in a row the scanner
\* has left WsLive: ws_connected is false and process_ws_blocks has returned.
C3_ThreeFailuresLeaveWsLive ==
    g_wsFails >= MAX_CONSECUTIVE_ERRORS =>
        (~ws_connected /\ pc \notin {"ws_next", "ws_process"})

\* ---- C4 (Spec) ------------------------------------------------------------
\* C4: reconnect_attempts never exceeds 5.
C4_AtMostFiveAttempts == reconnect_attempts <= MAX_RECONNECT_ATTEMPTS

\* ---- C5 (Spec) ------------------------------------------------------------
\* C5: after a successful reconnect in HttpFallback the connection state is
\* ws_connected with consecutive_errors = 0 and reconnect_attempts = 0, and the next
\* iteration passes the gate into process_ws_blocks: it neither polls nor cools down.
C5_ReconnectBackToWsLive ==
    g_reconnected =>
        /\ ws_connected
        /\ consecutive_errors = 0
        /\ reconnect_attempts = 0
        /\ pc \in {"gate", "ws_subscribe", "done"}

\* the iteration after a successful reconnect is in process_ws_blocks
C5_Witness == g_reconnected /\ pc = "ws_subscribe" /\ last_block > 0

\* ---- C6 (Spec) ------------------------------------------------------------
\* the marker that the blocks tried so far in this poll must have left
LastOk(tried, start) ==
    LET oks == {i \in 1..Len(tried) : tried[i].ok}
    IN  IF oks = {} THEN start
        ELSE tried[CHOOSE i \in oks : \A j \in oks : j <= i].n

\* C6: a poll that sees head > marker tries marker+1 .. head, one block at a time in
\* increasing order, and the marker is n only after block n was processed
\* successfully; a block whose processing failed never becomes the marker.
C6_ReplayInOrder ==
    pc \in {"http_block", "http_poll_end"} =>
        /\ \A i \in 1..Len(g_attempted) : g_attempted[i].n = g_start + i
        /\ pc = "http_block" =>
              /\ block_num = g_start + Len(g_attempted) + 1
              /\ block_num <= latest_block
        /\ (pc = "http_poll_end" /\ latest_block > g_start) =>
              g_start + Len(g_attempted) = latest_block
        /\ last_block = LastOk(g_attempted, g_start)
        /\ \A i \in 1..Len(g_attempted) :
              ~g_attempted[i].ok => last_block # g_attempted[i].n

\* a poll has tried two blocks, the first failed and the second became the marker
C6_Witness ==
    /\ pc = "http_poll_end"
    /\ Len(g_attempted) >= 2
    /\ ~g_attempted[1].ok
    /\ g_attempted[2].ok
    /\ last_block = g_attempted[2].n

\* ---- C7 (Spec) ------------------------------------------------------------
\* C7: run_cycle returns only by consuming the shutdown signal, and then Ok; after a
\* failed subscription, an ended stream, a failed head poll or a block error that
\* ends process_ws_blocks, the loop goes on to its next iteration.
C7_ReturnsOnlyOnShutdown ==
    /\ pc = "done" => (result = "Ok" /\ shutdown = "consumed")
    /\ result # "Err"
    /\ g_lastErr # "none" => pc \in {"gate", "reconnect_delay", "done"}

\* the head poll failed and the loop is on its way to the next iteration
C7_Witness == g_lastErr = "poll" /\ pc = "gate" /\ error_count >= 2

\* ---- C8 (Spec) ------------------------------------------------------------
\* C8: after the cool-down sleep of a tripped breaker the next gate is passed: the
\* orchestrator never cools down twice in a row, and needs no external reset.
C8_PauseIsTemporary ==
    g_slept = "slept" => pc \in {"gate", "done"}

\* the gate was passed after a cool-down sleep, the breaker cleared by auto-reset
C8_Witness ==
    /\ g_slept = "resumed"
    /\ pc \in {"ws_subscribe", "http_sleep"}
    /\ error_count = 0
    /\ last_tripped = None

\* ---- C9 (FairSpec) --------------------------------------------------------
\* C9: once the shutdown signal is sent run_cycle eventually returns Ok, wherever the
\* scanner is, and after that no block is processed: the marker and the connection
\* state no longer change.
C9_ShutdownReturns ==
    /\ (shutdown = "sent") ~> (pc = "done" /\ result = "Ok")
    /\ [][pc = "done" => (pc' = "done" /\ UNCHANGED <<last_block, srcVars, g_attempted,
                                                       g_wsFails>>)]_vars

\* run_cycle has returned Ok on a signal taken while the breaker was tripped and
\* cooling down, after blocks had been processed
C9_Witness ==
    /\ pc = "done"
    /\ result = "Ok"
    /\ shutdown = "consumed"
    /\ last_block > 0
    /\ GateTripped

\* ---- C10 (SpecCBSeq) ------------------------------------------------------
\* C10: with auto-reset disabled, once `threshold` trips were made is_tripped()
\* returns true, also after the cool-down, until reset() is called; when reset()
\* returns the counter is 0 and the timestamp is cleared, and is_tripped() then
\* returns false.
C10_StaysTrippedUntilReset ==
    ~auto_reset =>
        \A p \in Procs :
            /\ (cpc[p] = "it_ret" /\ g_call[p].trips >= circuit_breaker_threshold)
                  => cret[p] = TRUE
            /\ cpc[p] = "rs_ret" => (error_count = 0 /\ last_tripped = None)
            /\ (cpc[p] = "it_ret" /\ g_call[p].trips = 0) => cret[p] = FALSE

\* is_tripped() has returned true although the cool-down has elapsed
C10_Witness ==
    /\ ~auto_reset
    /\ \E p \in Procs :
          /\ cpc[p] = "it_ret"
          /\ g_call[p].trips >= circuit_breaker_threshold
          /\ ~g_call[p].fresh
          /\ cret[p] = TRUE

\* ---- C11 (SpecCBSeq) -----------------------------------------------------
\* C11: the error counter never decays partially.  Every step leaves it unchanged,
\* or is the fetch_add of a trip() call and raises it by exactly 1, or is the store
\* of reset() (called directly, or by is_tripped on its auto-reset arm) and sets it
\* to 0.
C11_NoPartialDecay ==
    [][\/ error_count' = error_count
       \/ /\ error_count' = error_count + 1
          /\ \E p \in Procs : cpc[p] = "idle" /\ cpc'[p] \in {"tr_lock", "tr_ret"}
       \/ /\ error_count' = 0
          /\ \E p \in Procs :
                \/ (cpc[p] = "idle" /\ cpc'[p] = "rs_lock")
                \/ (cpc[p] = "it_reset_store" /\ cpc'[p] = "it_reset_lock")
      ]_vars

\* the auto-reset of is_tripped has just stored 0 over a counter that had reached a
\* threshold of at least 2
C11_Witness ==
    /\ circuit_breaker_threshold >= 2
    /\ error_count = 0
    /\ last_tripped # None
    /\ \E p \in Procs : cpc[p] = "it_reset_lock"

\* ---- C12 (SpecCacheSeq) ---------------------------------------------------
\* the last min(Len(stored), keep) values of `stored`, oldest first
MostRecent(stored, keep) ==
    SubSeq(stored, Len(stored) - Min(Len(stored), keep) + 1, Len(stored))

\* C12: after any sequence of store_slot_value calls, get_slot_history of a key
\* returns at most 100 values, which are the most recent min(n, 100) of the n values
\* stored under that key, oldest first; get_latest_value returns the value stored
\* last, or None for a key that was never stored.
C12_HistoryIsMostRecent ==
    \A p \in Procs :
        kpc[p] = "rd_ret" =>
            IF kop[p].op = "history"
            THEN /\ Len(kret[p]) <= 100
                 /\ kret[p] = MostRecent(g_stored[kop[p].key], 100)
            ELSE kret[p] = IF g_stored[kop[p].key] = << >> THEN Nothing
                           ELSE Some(Last(g_stored[kop[p].key]))

\* get_slot_history has returned 100 values of a key that more than 100 values were
\* stored under, the last of them after the truncation had started
C12_Witness ==
    \E p \in Procs :
        /\ kpc[p] = "rd_ret"
        /\ kop[p].op = "history"
        /\ Len(kret[p]) = 100
        /\ Len(g_stored[kop[p].key]) > 101

\* ---- C13 (SpecCache) ------------------------------------------------------
\* C13: under overlapping calls, a store excludes every other store and every read
\* from the moment it takes the lock until it has pushed and truncated; so a read
\* returns what the cache held between two complete stores (at most 100 values, the
\* most recent of those pushed before the read), and between stores every key holds
\* the most recent values pushed under it, in the order of the pushes.
C13_ReadsSeeCompleteStores ==
    /\ Cardinality({p \in Procs : kpc[p] \in {"st_push", "st_drain"}}) <= 1
    /\ (\E p \in Procs : kpc[p] \in {"st_push", "st_drain"}) =>
           \A q \in Procs : kpc[q] # "rd_held"
    /\ \A p \in Procs :
           kpc[p] = "rd_ret" =>
               /\ Len(kret[p]) <= 100
               /\ kop[p].op = "history" => kret[p] = MostRecent(g_seen[p], 100)
               /\ kop[p].op = "latest" =>
                      kret[p] = IF g_seen[p] = << >> THEN Nothing
                                ELSE Some(Last(g_seen[p]))
    /\ (\A p \in Procs : kpc[p] \notin {"st_push", "st_drain"}) =>
           \A k \in SlotKeys : slot_values[k] = MostRecent(g_stored[k], 100)

\* a read has returned 100 values of a key while the next store on that key has
\* pushed its value and not yet truncated, and another caller waits
C13_Witness ==
    \E p, q \in Procs :
        /\ kpc[p] = "rd_ret"
        /\ kop[p].op = "history"
        /\ Len(kret[p]) = 100
        /\ kpc[q] = "st_drain"
        /\ kop[q].key = kop[p].key
        /\ Len(slot_values[kop[q].key]) = 101

\* ---- C14 (SpecDet) --------------------------------------------------------
\* the Transfer log analysed last has a sender that is not the zero address and
\* that has a cached balance; nothing was written to the cache since
TransferFromCached ==
    /\ dpc \in {"extract", "panicked"}
    /\ classify_event(g_log.sig) = "Transfer"
    /\ TransferShaped(g_log)
    /\ g_log.topics[1] # ZeroAddress
    /\ slot_values[BalanceOf(g_log.topics[1])] # << >>

\* C14: for a Transfer log with amount A from a sender that is not the zero address
\* and whose cached latest balance is B, the deltas the extractor emits for the log
\* hold a MappingUpdate delta of the sender's balance slot with old value B, new
\* value max(B - A, 0) and confidence 0.95, for all A and B.
C14_SenderDelta ==
    TransferFromCached =>
        LET A == g_log.data[1]
            B == Last(slot_values[BalanceOf(g_log.topics[1])])
        IN  \E i \in DOMAIN g_emitted :
                /\ g_emitted[i].slot_key = BalanceOf(g_log.topics[1])
                /\ g_emitted[i].change_type = "MappingUpdate"
                /\ g_emitted[i].old_value = B
                /\ g_emitted[i].new_value = (IF B > A THEN B - A ELSE 0)
                /\ 100 * g_emitted[i].confidence = 95 * One

\* ---- C15 (SpecDet) --------------------------------------------------------
\* C15: a Transfer log yields balance deltas only for its sender and its receiver,
\* and for one of them only if it is not the zero address and a latest value was
\* cached for its balance slot (which is then the delta's old value); a block never
\* holds a balance delta of the zero address or of a slot that had no cached value.
C15_NoDeltaWithoutPrior ==
    /\ classify_event(g_log.sig) = "Transfer" =>
           \A i \in DOMAIN g_emitted :
               LET k == g_emitted[i].slot_key
               IN  /\ k[1] = "BalanceOf"
                   /\ k[2] \in {g_log.topics[1], g_log.topics[2]}
                   /\ k[2] # ZeroAddress
                   /\ g_pre[k] # << >>
                   /\ g_emitted[i].old_value = Last(g_pre[k])
    /\ \A i \in DOMAIN storage_deltas :
           LET k == storage_deltas[i].slot_key
           IN  k[1] = "BalanceOf" => (k[2] # ZeroAddress /\ g_pre[k] # << >>)

\* a Transfer from a holder with a cached balance to another holder without one has
\* been analysed: one delta, the sender's
C15_Witness ==
    /\ dpc = "extract"
    /\ classify_event(g_log.sig) = "Transfer"
    /\ TransferShaped(g_log)
    /\ g_log.topics[1] # ZeroAddress
    /\ g_log.topics[2] \notin {ZeroAddress, g_log.topics[1]}
    /\ g_pre[BalanceOf(g_log.topics[1])] # << >>
    /\ g_pre[BalanceOf(g_log.topics[2])] = << >>
    /\ Len(g_emitted) = 1
    /\ g_emitted[1].slot_key = BalanceOf(g_log.topics[1])

\* ---- C16 (SpecDet) --------------------------------------------------------
\* the block being analysed holds one Sync log, once or several times
SyncOnlyBlock ==
    /\ g_block # << >>
    /\ classify_event(g_block[1].sig) = "Sync"
    /\ \A j \in DOMAIN g_block : g_block[j] = g_block[1]

\* C16: a Sync log whose reserves equal the cached latest values of the two reserve
\* slots emits no delta; and when the Sync of one block comes again in the block
\* after it, that block emits no delta, writes nothing to the cache and yields no
\* drift event.
C16_SyncIdempotent ==
    /\ ( /\ dpc \in {"extract", "panicked"}
         /\ classify_event(g_log.sig) = "Sync"
         /\ SyncShaped(g_log)
         /\ \A i \in 1..2 :
               /\ slot_values[Reserves(7 + i)] # << >>
               /\ Last(slot_values[Reserves(7 + i)]) = g_log.data[i] )
       => (dpc = "extract" /\ g_emitted = << >>)
    /\ (g_runs > 1 /\ SyncOnlyBlock) =>
           /\ dpc # "panicked"
           /\ storage_deltas = << >>
           /\ slot_values = g_pre
           /\ drift_events = {}
           /\ det_block \in DOMAIN drift_history => drift_history[det_block] = {}

\* a Sync that changed both reserves in one block has been analysed again in the
\* next block, and analyze_block has returned
C16_Witness ==
    /\ g_runs = 2
    /\ dpc = "idle"
    /\ SyncOnlyBlock
    /\ SyncShaped(g_block[1])
    /\ \A i \in 1..2 :
          LET values == slot_values[Reserves(7 + i)]
          IN  /\ Len(values) = 2
              /\ values[1] # values[2]
              /\ values[2] = g_block[1].data[i]
    /\ det_block \in DOMAIN drift_history

\* ---- C17 (SpecDet) --------------------------------------------------------
\* the block holds one well-formed Sync log and, when the block began, the cache
\* held for both reserve slots a value other than the one the log sets
OneSyncChangingBoth ==
    /\ Len(g_block) = 1
    /\ classify_event(g_block[1].sig) = "Sync"
    /\ SyncShaped(g_block[1])
    /\ \A i \in 1..2 :
          /\ g_pre[Reserves(7 + i)] # << >>
          /\ Last(g_pre[Reserves(7 + i)]) # g_block[1].data[i]

\* C17: a block with one Sync log (R0, R1) on cached reserves (P0, P1), R0 # P0 and
\* R1 # P1, yields exactly two DirectWrite deltas, slot 8 from P0 to R0 and slot 9
\* from P1 to R1, each of confidence 0.99, and after the block the latest cached
\* values of the two slots are R0 and R1.
C17_SyncOverwrites ==
    (OneSyncChangingBoth /\ receipts = << >>) =>
        /\ dpc # "panicked"
        /\ Len(storage_deltas) = 2
        /\ \A i \in 1..2 :
              /\ storage_deltas[i].slot_key = Reserves(7 + i)
              /\ storage_deltas[i].old_value = Last(g_pre[Reserves(7 + i)])
              /\ storage_deltas[i].new_value = g_block[1].data[i]
              /\ storage_deltas[i].change_type = "DirectWrite"
              /\ storage_deltas[i].confidence = Hundredths(99)
        /\ dpc \in {"store", "idle"} =>
              \A i \in 1..2 :
                 get_latest_value(Reserves(7 + i)) = Some(g_block[1].data[i])

\* ---- C18 (SpecDet) --------------------------------------------------------
\* extract_storage_changes has just handled a Swap log that carries four amounts
SwapAnalysed ==
    /\ dpc \in {"extract", "panicked"}
    /\ classify_event(g_log.sig) = "Swap"
    /\ SwapShaped(g_log)

\* old + in - out with saturation, amount0 for slot 8 and amount1 for slot 9
SwapExpected(n, old) ==
    LET in == IF n = 8 THEN g_log.data[1] ELSE g_log.data[2]
        out == IF n = 8 THEN g_log.data[3] ELSE g_log.data[4]
        sum == Min(old + in, MaxU256)
    IN  Max(sum - out, 0)

\* C18: for a Swap log, each of the slots 8 and 9 that the layout marks as Reserve
\* and that has a cached value old gets one DirectWrite delta of confidence 0.98 with
\* new = old + in - out, saturating; a slot that is not marked Reserve gets none.
C18_SwapDeltas ==
    SwapAnalysed =>
        /\ dpc # "panicked"
        /\ \A n \in {8, 9} :
              LET mine == GroupOf(g_emitted, Reserves(n))
                  marked == n \in DOMAIN get_storage_layout
                                /\ get_storage_layout[n] = "Reserve"
              IN  /\ (marked /\ slot_values[Reserves(n)] # << >>) =>
                        /\ Len(mine) = 1
                        /\ mine[1].old_value = Last(slot_values[Reserves(n)])
                        /\ mine[1].new_value =
                               SwapExpected(n, Last(slot_values[Reserves(n)]))
                        /\ mine[1].change_type = "DirectWrite"
                        /\ mine[1].confidence = Hundredths(98)
                  /\ ~marked => mine = << >>

\* ---- C19 (SpecDet) --------------------------------------------------------
\* detect_drift_events has just scored the groups of the block
GroupsScored == dpc = "store"

\* the slots that storage_deltas has a group for
GroupKeys == {k \in SlotKeys : GroupOf(storage_deltas, k) # << >>}

\* C19: the drift score of a group lies in [0, 1], and with the number of deltas
\* and the history of the slot as they are, a greater mean impact never gives a
\* smaller score.
C19_ScoreBoundedMonotone ==
    GroupsScored =>
        \A k \in GroupKeys :
           LET changes == GroupOf(storage_deltas, k)
               rapid == RapidChanges(changes)
               volatility == VolatilityTerm(get_slot_history(k))
               score == calculate_drift_score(changes, k)
           IN  /\ 0 <= score /\ score <= One
               /\ score = ScoreOf(rapid, avg_impact(changes), volatility)
               /\ \A avg \in 0..One :
                     /\ avg <= avg_impact(changes) =>
                            ScoreOf(rapid, avg, volatility) <= score
                     /\ avg >= avg_impact(changes) =>
                            ScoreOf(rapid, avg, volatility) >= score

\* a group of more than three deltas on a history of more than ten values whose
\* volatility is above 1: the three terms add up to more than 1 and the score is 1
C19_Witness ==
    /\ GroupsScored
    /\ \E k \in GroupKeys :
          /\ Len(GroupOf(storage_deltas, k)) > 3
          /\ Len(get_slot_history(k)) > 10
          /\ calculate_volatility(get_slot_history(k)) > One
          /\ calculate_drift_score(GroupOf(storage_deltas, k), k) = One

\* ---- C20 (SpecDet) --------------------------------------------------------
\* what must hold of an event of block b
EventWellFormed(e, b) ==
    /\ e.confidence > (70 * One) \div 100
    /\ e.confidence <= One
    /\ e.current_block = b
    /\ e.predicted_block = e.current_block + 10

\* C20: a SlotDriftEvent exists for a group of a block only when the drift score of
\* the group is above 0.7; every event that analyze_block returns or that the drift
\* history holds has that score as its confidence (above 0.7, at most 1) and is
\* predicted for its block plus ten.
C20_EventsAboveThreshold ==
    /\ dpc \in {"store", "idle"} =>
          \A e \in drift_events :
             /\ e.slot_key \in GroupKeys
             /\ e.confidence =
                    calculate_drift_score(GroupOf(storage_deltas, e.slot_key), e.slot_key)
             /\ EventWellFormed(e, det_block)
    /\ \A b \in DOMAIN drift_history :
          \A e \in drift_history[b] : EventWellFormed(e, b)

\* analyze_block has returned an event of confidence below 1 and stored it
C20_Witness ==
    /\ dpc = "idle"
    /\ det_block \in DOMAIN drift_history
    /\ \E e \in drift_events :
          /\ e \in drift_history[det_block]
          /\ e.confidence < One

\* ---- C21 (SpecHist) -------------------------------------------------------
\* C21: once the events of block b are stored, the drift history has no entry of
\* a block at or below b - 1000, whatever the block numbers analysed before b.
C21_RetentionWindow ==
    (dpc = "idle" /\ g_runs > 0) =>
        \A k \in DOMAIN drift_history : k + Retention > det_block

\* ---- C22 (SpecDet) --------------------------------------------------------
\* extract_storage_changes has looked up the layout for a receipt of the block
LayoutLookedUp == Len(receipts) < Len(g_block)

\* C22: the layout lookup for a contract without a registered layout returns the
\* default layout and leaves it in the registry, so that after a lookup the
\* registry has an entry for the contract, which the next lookup returns.
C22_LookupCachesDefault ==
    LayoutLookedUp =>
        /\ contract_layouts # Nothing
        /\ get_storage_layout = contract_layouts[1]

\* ---- C23 (SpecSplit) ------------------------------------------------------
\* the places (from 1) where the successive non-overlapping occurrences of d in h
\* start, looking from the place `from` on
RECURSIVE Occurrences(_, _, _)
Occurrences(h, d, from) ==
    LET starts == {i \in from..(Len(h) - Len(d) + 1) : SubSeq(h, i, i + Len(d) - 1) = d}
        first == CHOOSE i \in starts : \A j \in starts : i <= j
    IN  IF starts = {} THEN << >>
        ELSE <<first>> \o Occurrences(h, d, first + Len(d))

\* the i-th of the substrings that lie between these occurrences
Between(h, d, i) ==
    LET occ == Occurrences(h, d, 1)
    IN  SubSeq(h, IF i = 1 THEN 1 ELSE occ[i - 1] + Len(d),
                  IF i <= Len(occ) THEN occ[i] - 1 ELSE Len(h))

EndsWith(h, d) == Len(h) >= Len(d) /\ SubSeq(h, Len(h) - Len(d) + 1, Len(h)) = d

\* the last of the non-overlapping occurrences of d reaches the end of h
LastOccurrenceEnds(h, d) ==
    LET occ == Occurrences(h, d, 1)
    IN  occ # << >> /\ occ[Len(occ)] + Len(d) - 1 = Len(h)

\* what C23 says of the items and of the calls after the last item
SplitsInOrder ==
    /\ \A i \in 1..Len(g_items) :
          /\ i <= Len(Occurrences(g_haystack, delimiter, 1)) + 1
          /\ g_items[i] = Between(g_haystack, delimiter, i)
    /\ remainder = Nothing =>
          Len(g_items) = Len(Occurrences(g_haystack, delimiter, 1)) + 1
    /\ g_calls > Len(g_items) => (remainder = Nothing /\ g_ret = Nothing)
    /\ (g_calls = Len(g_items) /\ g_calls > 0) => g_ret = Some(Last(g_items))

\* C23 as stated: for a non-empty delimiter StrSplit yields in order the substrings
\* between the successive non-overlapping occurrences of the delimiter, one more
\* than there are occurrences, the last one empty when the haystack ends with the
\* delimiter, and None on every call after that.
C23_AsStated ==
    delimiter # << >> =>
        /\ SplitsInOrder
        /\ (remainder = Nothing /\ EndsWith(g_haystack, delimiter)) =>
              Last(g_items) = << >>

\* C23 amended: the same, the last item being empty when the last of the
\* non-overlapping occurrences ends the haystack.
C23_Split ==
    delimiter # << >> =>
        /\ SplitsInOrder
        /\ (remainder = Nothing /\ LastOccurrenceEnds(g_haystack, delimiter)) =>
              Last(g_items) = << >>

\* a haystack with two occurrences of a delimiter of two letters, the second at
\* its end, has been split and next() has been called twice more
C23_Witness ==
    /\ Len(delimiter) = 2
    /\ remainder = Nothing
    /\ Len(g_items) = 3
    /\ g_items[1] # << >>
    /\ Last(g_items) = << >>
    /\ g_calls = Len(g_items) + 2
    /\ g_ret = Nothing

\* ---- C24 (Spec) -----------------------------------------------------------
\* the error counter is at or above the threshold and the cool-down has not elapsed
BreakerTripped ==
    /\ error_count >= circuit_breaker_threshold
    /\ last_tripped # None
    /\ last_tripped < cool_down

\* run_cycle is past the gate of an iteration, where blocks are fetched and processed
PastGate ==
    pc \in {"ws_subscribe", "ws_next", "ws_process", "http_sleep", "http_head",
            "http_block", "http_poll_end", "connecting"}

\* C24: no block is fetched or processed while the breaker is tripped: the orchestrator
\* is past the gate only with a breaker that is not tripped, an iteration that finds
\* the breaker tripped goes to the cool-down sleep, and the sleep leads back to the
\* gate with no block taken from either source and the marker as it was.
C24_NoBlockWhileTripped ==
    [][/\ PastGate' => ~BreakerTripped'
       /\ (pc = "gate" /\ BreakerTripped /\ pc' # pc) => pc' \in {"cooldown", "done"}
       /\ pc = "cooldown" =>
             /\ pc' \in {"cooldown", "gate", "done"}
             /\ UNCHANGED <<last_block, head, ws_sent, ws_block, block_num>>]_vars

\* an iteration found the breaker tripped, after blocks had been processed, and sleeps
C24_Witness ==
    /\ pc = "cooldown"
    /\ BreakerTripped
    /\ last_block > 0

\* ---- C25 (SpecDetCancel) --------------------------------------------------
\* C25: when the processing of a block is cancelled, none or all of the deltas of
\* the block have been written to the slot cache.
C25_CancelKeepsWritesWhole ==
    dpc = "cancelled" => (updated = 0 \/ updated = Len(storage_deltas))

\* ---- C26 (SpecDetCancel) --------------------------------------------------
\* the values update_cache has to write for slot k in this block, in order
NewValues(k) ==
    [i \in 1..Len(GroupOf(storage_deltas, k)) |-> GroupOf(storage_deltas, k)[i].new_value]

\* every delta of the block in hand is in the slot cache
AllDeltasWritten ==
    /\ updated = Len(storage_deltas)
    /\ \A k \in SlotKeys : get_slot_history(k) = drain(g_pre[k] \o NewValues(k))

\* C26: when the analysis of the block after a processed block starts, all deltas
\* of the processed block are in the slot cache, and the scoring and prediction of a
\* block are computed on a cache that holds all deltas of that block.
C26_BlockByBlock ==
    [][/\ (dpc = "idle" /\ g_runs > 0 /\ g_runs' = g_runs + 1) => AllDeltasWritten
       /\ (dpc # "store" /\ dpc' = "store") => (AllDeltasWritten /\ AllDeltasWritten')]_vars

\* the block after a processed block is being scored, on two deltas of its own
C26_Witness ==
    /\ g_runs = 2
    /\ dpc = "store"
    /\ Len(storage_deltas) = 2
    /\ AllDeltasWritten
    /\ drift_events # {}

\* C27: on the WS path a block whose processing failed or timed out adds one to
\* consecutive_errors and leaves the marker last_block where it was.
C27_WsErrorsCounted ==
    [][((WsProcessTimeout \/ WsProcessErr) /\ ~WsProcessOk) =>
          (consecutive_errors' = consecutive_errors + 1 /\ last_block' = last_block)]_vars

\* C28: at most MAX_RECEIPT_CONCURRENCY receipt fetches are in flight; a fetch in
\* flight holds exactly one permit of RPC_SEMAPHORE, taken before its call and given
\* back when the call completes; no lock of the cache is held while a permit is
\* held; and every permit taken is given back.
PermitsCounted ==
    /\ inflight <= MAX_RECEIPT_CONCURRENCY
    /\ held = inflight
    /\ permits + held = MAX_RECEIPT_CONCURRENCY
    /\ held > 0 => (rw_writer = None /\ rw_readers = {})

OnePermitPerCall ==
    /\ inflight' > inflight => (held' - held = inflight' - inflight
                                /\ permits - permits' = inflight' - inflight)
    /\ inflight' < inflight => (held - held' = inflight - inflight'
                                /\ permits' - permits = inflight - inflight')

C28_PermitsBoundFetches ==
    /\ []PermitsCounted
    /\ [][OnePermitPerCall]_vars
    /\ (held > 0) ~> (held = 0)

\* a later block of more transactions than permits, after a block whose analysis
\* wrote to the cache: every permit is taken and a fetch is still to start
C28_Witness ==
    /\ rphase = "fetch"
    /\ g_stores > 0
    /\ inflight = MAX_RECEIPT_CONCURRENCY
    /\ permits = 0
    /\ queued > 0

\* C29: a log with no topic, a log of an unknown signature, and a Transfer, Swap or
\* Sync log too short for its shape give no delta and no failure: analysing it
\* leaves the deltas and the cache as they were and goes on with the logs after it.
TooShort(log) ==
    \/ log.sig = ""
    \/ classify_event(log.sig) = "Unknown"
    \/ classify_event(log.sig) = "Transfer" /\ (Len(log.topics) < 2 \/ Len(log.data) < 1)
    \/ classify_event(log.sig) = "Swap" /\ Len(log.data) < 4
    \/ classify_event(log.sig) = "Sync" /\ Len(log.data) < 2

ImpactAsStated(delta, log) ==
    /\ delta.impact_score \in 0..One
    /\ delta.change_type = "MappingUpdate" =>
          delta.impact_score =
              IF delta.old_value = 0 THEN One
              ELSE Min((log.data[1] * One) \div delta.old_value, One)
    /\ delta.change_type = "DirectWrite" =>
          delta.impact_score =
              IF delta.old_value = 0 THEN One
              ELSE Min(2 * ((Change(delta.old_value, delta.new_value) * One)
                               \div delta.old_value), One)

C30_ImpactInUnit ==
    /\ dpc # "panicked"
    /\ \A i \in 1..Len(g_emitted) : ImpactAsStated(g_emitted[i], g_log)

\* C31: a detector whose cache is empty keeps it empty: as long as no slot has a
\* cached value no log emits a delta, no drift event is produced or stored, and no
\* step puts a value into the cache.
NoEventStored == \A b \in DOMAIN drift_history : drift_history[b] = {}

C31_EmptyCacheStaysEmpty ==
    /\ [](slot_values = EmptyCache =>
            (storage_deltas = << >> /\ g_emitted = << >> /\ drift_events = {}
             /\ NoEventStored /\ dpc # "panicked"))
    /\ [][slot_values = EmptyCache => slot_values' = EmptyCache]_vars

\* two blocks holding a well-formed Transfer of a non-zero amount between two
\* holders have been analysed to the end by a detector that started empty
C31_Witness ==
    /\ slot_values = EmptyCache
    /\ g_runs = 2
    /\ dpc = "idle"
    /\ Cardinality(DOMAIN drift_history) = 2
    /\ \E i \in DOMAIN g_block :
          /\ g_block[i].sig = "ddf252ad"
          /\ TransferShaped(g_block[i])
          /\ g_block[i].topics[1] # ZeroAddress /\ g_block[i].topics[2] # ZeroAddress
          /\ g_block[i].data[1] > 0

\* C32: when several deltas of one block are on the same slot, each of them starts
\* from the value the one before it left: its old value is the previous delta's
\* new value, so that the value cached last is all of them applied in log order.
NextOnSlot(i, j) ==
    /\ i < j
    /\ storage_deltas[i].slot_key = storage_deltas[j].slot_key
    /\ \A m \in (i + 1)..(j - 1) : storage_deltas[m].slot_key # storage_deltas[i].slot_key

C32_LogsCompose ==
    \A i, j \in 1..Len(storage_deltas) :
        NextOnSlot(i, j) => storage_deltas[j].old_value = storage_deltas[i].new_value

\* C33: whenever no call of the breaker is in progress, an error counter at or
\* above the threshold comes with a tripped timestamp.
C33_QuiescentConsistent ==
    (\A p \in Procs : cpc[p] = "idle") =>
        (error_count >= circuit_breaker_threshold => last_tripped # None)

\* C34: the marker last_block never decreases, whatever the order of WS
\* deliveries, HTTP replays and switches between the two.
C34_MarkerMonotone == [][last_block' >= last_block]_vars

\* C35: a block is stored as last_block only when every one of its receipt fetches
\* gave its receipt.
C35_MarkedOnlyWhenFetched == g_marked => ~g_missed

\* C36: when an HTTP polling pass has returned without error and the iteration of
\* run_cycle goes on to its end, the breaker's error counter is 0 (the WS pass
\* never returns without error, so the polling pass is the successful iteration).
C36_SuccessResetsCounter ==
    [][(pc = "http_poll_end" /\ pc' \in {"gate", "connecting"}) => error_count' = 0]_vars

\* C37: the reconnect-attempt counter never bars the way back to WsLive: the
\* scanner is never left with the push transport down, no connection attempt under
\* way and a counter for which try_reconnect_ws returns at once.
C37_CounterNeverBlocks ==
    ~(~ws_connected /\ pc # "connecting" /\ reconnect_attempts > MAX_RECONNECT_ATTEMPTS)

\* C38: every drift event of a block is for a slot whose history, with the block's
\* values written, holds more than 10 values: a group on a shorter history scores at
\* most 0.3 + 0.4 = 0.7, which is not above the threshold.
C38_NoEventOnShortHistory ==
    dpc \in {"store", "idle"} =>
        /\ \A e \in drift_events : Len(get_slot_history(e.slot_key)) > 10
        /\ \A k \in GroupKeys :
              Len(get_slot_history(k)) <= 10 =>
                  calculate_drift_score(GroupOf(storage_deltas, k), k) <= (70 * One) \div 100

\* a group of more than three deltas of impact 1 on a history of at most 10 values
\* scores exactly 0.7 and has no event
C38_Witness ==
    /\ dpc = "store"
    /\ \E k \in GroupKeys :
          /\ Len(get_slot_history(k)) <= 10
          /\ Len(GroupOf(storage_deltas, k)) > 3
          /\ calculate_drift_score(GroupOf(storage_deltas, k), k) = (70 * One) \div 100
          /\ \A e \in drift_events : e.slot_key # k

\* C39: during a poll of the HTTP fallback every block above the marker the poll
\* started from and at or below the marker as it is now was processed successfully.
C39_NoBlockLostBelowMarker ==
    pc \in {"http_block", "http_poll_end"} =>
        \A n \in (g_start + 1)..last_block :
            \E i \in 1..Len(g_attempted) : g_attempted[i].n = n /\ g_attempted[i].ok

\* C40: a trip() call made while the error counter is already at or above the
\* threshold and the breaker has its tripped timestamp leaves the timestamp where
\* it is (calls made one after the other: the counter holds this call's increment).
C40_LaterTripsKeepStamp ==
    [][\A p \in Procs :
          (/\ cpc[p] = "tr_lock" /\ cpc'[p] = "tr_ret"
           /\ error_count > circuit_breaker_threshold
           /\ last_tripped # None) => last_tripped' = last_tripped]_vars

====
